---- MODULE Spec2Model ----
(***************************************************************************)
(* Model of stupid-dbg: the Debuggee process controller                    *)
(* (stupid-dbg/src/debuggee.rs) together with the part of the Linux        *)
(* process, ptrace and pipe semantics its system calls rely on.            *)
(*                                                                         *)
(* One traced process and one controller are modelled at a time.  A        *)
(* handler is one action, except where it blocks in the kernel: a blocked  *)
(* waitpid or pipe read parks the caller (pc) until the kernel can answer. *)
(***************************************************************************)
EXTENDS Integers, Sequences, FiniteSets, TLC

(* ---- bounds ---- *)
MaxRegVal == 2          \* register contents range over 0..MaxRegVal
MaxZombies == 2         \* unreaped children of failed launches kept track of
MaxWrites == 2          \* writes to one register snapshot
MaxDwarfId == 70        \* largest debug number looked up
MaxLines == 3           \* lines the command loop reads

(* ---- program and platform constants ---- *)
SIGTRAP == 5
SIGKILL == 9
SIGSTOP == 19
EXIT_FAILURE == 1
PANIC_EXIT_CODE == 101
UserSize == 912         \* size_of::<libc::user>()
UserFpregsSize == 512   \* size_of::<libc::user_fpregs_struct>()
DebugRegCount == 8      \* libc::user.u_debugreg: [u64; 8]

StopSignals == {SIGTRAP, SIGSTOP}
ExitCodes == {0, EXIT_FAILURE}
RegVals == 1..MaxRegVal

(* Option<T>: None is the empty tuple, Some(x) the one-element tuple. *)
None == <<>>
Some(x) == <<x>>

(* ---- ProcessState (debuggee.rs:28-43) ---- *)
Running == [tag |-> "Running", val |-> None]
Stopped(optsig) == [tag |-> "Stopped", val |-> optsig]
Exited(optcode) == [tag |-> "Exited", val |-> optcode]
Terminated(sig) == [tag |-> "Terminated", val |-> Some(sig)]

is_alive(ps) == ps.tag \in {"Running", "Stopped"}

(* ---- wait statuses as nix::sys::wait::waitpid returns them ---- *)
WS(kind, v) == [kind |-> kind, val |-> v]
NoStatus == WS("NoStatus", 0)

VARIABLES
    (* the controller (struct Debuggee) and its caller *)
    exists,            \* a Debuggee value is alive
    process_state,     \* Debuggee.process_state
    should_terminate,  \* Debuggee.should_terminate
    registers,         \* Debuggee.registers : Option<Registers>
    pc,                \* where the calling thread is
    call,              \* the API call in progress or last finished
    ret,               \* what the last finished call returned and observed
    (* the operating system's side of the traced process *)
    proc,              \* "none","preexec","running","stopped","zombie","gone"
    traced,            \* the trace relationship exists
    is_child,          \* the process is a child of the debugger
    wait_status,       \* status waitpid would report, or NoStatus
    os_regs,           \* the process's register file
    (* SpawnChild: the pre-exec child and the error-reporting pipe *)
    child_pc,
    child_fail,        \* what made the pre-exec child fail, "" if nothing
    pipe_w,            \* holders of the pipe's write end
    pipe_data,         \* bytes written to the pipe
    zombies,           \* exited children of the debugger nobody reaped
    (* a register snapshot looked at byte by byte (register.rs) *)
    snapshot,          \* Registers.user: the bytes of a libc::user
    reg_op,            \* the last register operation and its result
    reg_focus,         \* the register whose lane the operations work on
    (* the command loop (debugger.rs) *)
    repl               \* Debugger, the position of its loop and its last turn

ctl_vars == <<exists, process_state, should_terminate, registers, pc, call, ret>>
os_vars == <<proc, traced, is_child, wait_status, os_regs>>
spawn_vars == <<child_pc, child_fail, pipe_w, pipe_data, zombies>>
reg_vars == <<snapshot, reg_op, reg_focus>>
vars == <<exists, process_state, should_terminate, registers, pc, call, ret,
          proc, traced, is_child, wait_status, os_regs,
          child_pc, child_fail, pipe_w, pipe_data, zombies,
          snapshot, reg_op, reg_focus, repl>>

Call(op, blocking, err) == [op |-> op, blocking |-> blocking, err |-> err]
NoCall == Call("none", FALSE, "")

(* What a finished call returned (ok, err) and what it did on the way: the  *)
(* wait result it decoded, the state before the call, whether the snapshot  *)
(* held locally written values before the call, whether a snapshot was      *)
(* fetched, and the requests it issued to the OS, in order.                 *)
Dirty(regs) == regs # None /\ \A v \in 0..MaxRegVal : regs # Some([regs |-> v, i387 |-> v, u_debugreg |-> v])
Ret(op, ok, err, wait, before, fetched, reqs) ==
    [op |-> op, ok |-> ok, err |-> err, wait |-> wait, before |-> before,
     dirty_before |-> Dirty(registers), fetched |-> fetched, reqs |-> reqs]
NoRet == [op |-> "none", ok |-> TRUE, err |-> "", wait |-> "none", before |-> Running,
          dirty_before |-> FALSE, fetched |-> FALSE, reqs |-> <<>>]

(* No byte-level register operation is under way. *)
NoSnapshot == <<>>
NoRegOp == [op |-> "none", reg |-> None, value |-> None, ok |-> TRUE, out |-> None,
            writes |-> 0]

(* No command loop is running. *)
NoRepl == [pc |-> "none", debuggee |-> None, event |-> "none", command |-> "none",
           result |-> None, logged |-> FALSE, calls |-> <<>>, lines |-> 0]

(* No controller, no process, no spawn. *)
IdleInit ==
    /\ exists = FALSE
    /\ process_state = Running
    /\ should_terminate = FALSE
    /\ registers = None
    /\ pc = "idle"
    /\ call = NoCall
    /\ ret = NoRet
    /\ proc = "none"
    /\ traced = FALSE
    /\ is_child = FALSE
    /\ wait_status = NoStatus
    /\ os_regs = 1
    /\ child_pc = "none"
    /\ child_fail = ""
    /\ pipe_w = {}
    /\ pipe_data = ""
    /\ zombies = 0

Init ==
    /\ IdleInit
    /\ snapshot = NoSnapshot
    /\ reg_op = NoRegOp
    /\ reg_focus = None
    /\ repl = NoRepl

(* ======================================================================= *)
(* The kernel's side: wait4, ptrace                                        *)
(* ======================================================================= *)

(* Options wait4(2) accepts on Linux; any other bit, WNOWAIT included,     *)
(* makes the call fail with EINVAL before it looks at any process.         *)
ValidWait4Options == {"WNOHANG", "WUNTRACED", "WCONTINUED"}

(* The process exists as far as kill(2) and wait4(2) are concerned         *)
(* (zombies do).                                                           *)
ProcessExists(p) == p \in {"preexec", "running", "stopped", "zombie"}

(* The caller may wait for the process: it is its child or its tracee,     *)
(* and it has not been reaped.                                             *)
Waitable == ProcessExists(proc) /\ (is_child \/ traced)

(* The tracee is in a ptrace-stop, so ptrace requests on it are accepted.  *)
InPtraceStop == traced /\ proc = "stopped"

(* Results waitpid(pid, options) can return right now; {} means the call   *)
(* blocks.                                                                 *)
WaitpidResults(options) ==
    IF options \ ValidWait4Options # {} THEN {WS("EINVAL", 0)}
    ELSE IF ~Waitable THEN {WS("ECHILD", 0)}
    ELSE IF wait_status # NoStatus THEN {wait_status}
    ELSE IF "WNOHANG" \in options THEN {WS("StillAlive", 0)}
    ELSE {}

(* What a returned wait result leaves behind in the kernel. *)
ProcAfterWait(ws, options) ==
    IF ws.kind \in {"Exited", "Signaled"} /\ "WNOWAIT" \notin options THEN "gone" ELSE proc
TracedAfterWait(ws, options) ==
    IF ws.kind \in {"Exited", "Signaled"} /\ "WNOWAIT" \notin options THEN FALSE ELSE traced
StatusAfterWait(ws, options) ==
    IF ws.kind \in {"Exited", "Signaled", "Stopped"} /\ "WNOWAIT" \notin options
    THEN NoStatus ELSE wait_status

(* ======================================================================= *)
(* Registers (register.rs:348-394), as far as the controller needs them:   *)
(* the three parts of libc::user that read_with_ptrace fills.              *)
(* ======================================================================= *)
UserParts == {"regs", "i387", "u_debugreg"}
User(r, f, d) == [regs |-> r, i387 |-> f, u_debugreg |-> d]

(* Registers::read_with_ptrace: getregs, getfpregs, then the debug         *)
(* registers.  Each query is refused once the tracee is no longer in a     *)
(* ptrace-stop, which between the wait and the queries only SIGKILL can    *)
(* cause.  point = "none": all queries answered.                           *)
FetchPoints == {"none", "getregs", "getfpregs", "read_user"}
FetchReqs(point) ==
    CASE point = "getregs" -> <<"PTRACE_GETREGS">>
      [] point = "getfpregs" -> <<"PTRACE_GETREGS", "PTRACE_GETFPREGS">>
      [] OTHER -> <<"PTRACE_GETREGS", "PTRACE_GETFPREGS", "PTRACE_PEEKUSER">>
read_with_ptrace == User(os_regs, os_regs, os_regs)

(* Registers::write_register: changes the local libc::user only. *)
write_register(user, part, v) == [user EXCEPT ![part] = v]

(* ======================================================================= *)
(* Debuggee::update_process_state (debuggee.rs:214-238)                    *)
(* ======================================================================= *)

(* Variant of wait_options: the flag is not passed. *)
wait_options_noflag(blocking) == {}

(* blocking.not().then_some(WaitPidFlag::WNOWAIT) *)
wait_options(blocking) == IF blocking THEN {} ELSE {"WNOWAIT"}

(* Variants of the match: no Err is propagated; every Err is propagated    *)
(* (no ECHILD arm); ECHILD                                                 *)
(* is taken for a process that is still alive.                             *)
DecodeOk_any_error(ws) == TRUE
DecodeOk_noechild(ws) == ws.kind \in {"Exited", "Signaled", "Stopped", "Continued", "StillAlive"}
Decode_echild_alive(ws) ==
    CASE ws.kind = "Exited" -> Exited(Some(ws.val))
      [] ws.kind = "Signaled" -> Terminated(ws.val)
      [] ws.kind = "Stopped" -> Stopped(Some(ws.val))
      [] OTHER -> Running

(* Variant of the match: the exit code is dropped. *)
Decode_exited_nocode(ws) ==
    CASE ws.kind = "Exited" -> Exited(None)
      [] ws.kind = "Signaled" -> Terminated(ws.val)
      [] ws.kind = "Stopped" -> Stopped(Some(ws.val))
      [] ws.kind \in {"Continued", "StillAlive"} -> Running
      [] ws.kind = "ECHILD" -> Exited(None)
      [] OTHER -> process_state

(* The match on wait_status: the decoded state, or the propagated error. *)
DecodeOk(ws) == ws.kind \in {"Exited", "Signaled", "Stopped", "Continued", "StillAlive", "ECHILD"}
Decode(ws) ==
    CASE ws.kind = "Exited" -> Exited(Some(ws.val))
      [] ws.kind = "Signaled" -> Terminated(ws.val)
      [] ws.kind = "Stopped" -> Stopped(Some(ws.val))
      [] ws.kind \in {"Continued", "StillAlive"} -> Running
      [] ws.kind = "ECHILD" -> Exited(None)
      [] OTHER -> process_state

(* Variant of read_registers: the parts fetched before the failing query   *)
(* are stored.                                                             *)
read_registers_partial(old, point) ==
    IF point = "none" THEN Some(User(os_regs, os_regs, os_regs))
    ELSE IF point = "getregs" THEN old
    ELSE Some(User(os_regs, 0, 0))

(* Variant of read_registers: a snapshot already present is kept. *)
read_registers_keep(old, point) ==
    IF point = "none" /\ old = None THEN Some(User(os_regs, os_regs, os_regs)) ELSE old

(* read_registers: self.registers = Some(regs) only after the fetch        *)
(* succeeded.                                                              *)
read_registers(old, point) == IF point = "none" THEN Some(read_with_ptrace) ELSE old

Outcome(ok, err, ws, ps, regs, p, t, wstat, fetched, reqs) ==
    [ok |-> ok, err |-> err, wait |-> ws.kind, ps |-> ps, regs |-> regs,
     proc |-> p, traced |-> t, wstat |-> wstat, fetched |-> fetched, reqs |-> reqs]

(* Everything one call of update_process_state(blocking) can do from the   *)
(* current state; {} when waitpid blocks.                                  *)
UpdateOutcomes(blocking) ==
    LET options == wait_options(blocking) IN
    UNION { IF ~DecodeOk(ws)
            THEN { Outcome(FALSE, ws.kind, ws, process_state, registers,
                           proc, traced, wait_status, FALSE, <<"waitpid">>) }
            ELSE IF Decode(ws).tag = "Stopped"
            THEN { IF point = "none"
                   THEN Outcome(TRUE, "", ws, Decode(ws), read_registers(registers, point),
                                ProcAfterWait(ws, options), TracedAfterWait(ws, options),
                                StatusAfterWait(ws, options), TRUE,
                                <<"waitpid">> \o FetchReqs(point))
                   ELSE Outcome(FALSE, "ESRCH", ws, Decode(ws), read_registers(registers, point),
                                "zombie", traced, WS("Signaled", SIGKILL), FALSE,
                                <<"waitpid">> \o FetchReqs(point))
                 : point \in FetchPoints }
            ELSE { Outcome(TRUE, "", ws, Decode(ws), registers,
                           ProcAfterWait(ws, options), TracedAfterWait(ws, options),
                           StatusAfterWait(ws, options), FALSE, <<"waitpid">>) }
          : ws \in WaitpidResults(options) }

(* A variant of the assignments that clears the snapshot outside Stopped. *)
ApplyOutcome_clear(o) ==
    /\ process_state' = o.ps
    /\ registers' = IF o.ps.tag = "Stopped" THEN o.regs ELSE None
    /\ proc' = o.proc
    /\ traced' = o.traced
    /\ wait_status' = o.wstat

(* The assignments an outcome stands for. *)
ApplyOutcome(o) ==
    /\ process_state' = o.ps
    /\ registers' = o.regs
    /\ proc' = o.proc
    /\ traced' = o.traced
    /\ wait_status' = o.wstat

update_process_state(blocking) ==
    /\ pc = "idle" /\ exists
    /\ call' = Call("update", blocking, "")
    /\ IF UpdateOutcomes(blocking) = {}
       THEN /\ pc' = "update_wait"
            /\ UNCHANGED <<process_state, registers, ret, proc, traced, wait_status>>
       ELSE \E o \in UpdateOutcomes(blocking) :
            /\ ApplyOutcome(o)
            /\ pc' = "idle"
            /\ ret' = Ret("update", o.ok, o.err, o.wait, process_state, o.fetched, o.reqs)
    /\ UNCHANGED <<exists, should_terminate, is_child, os_regs>>
    /\ UNCHANGED spawn_vars
    /\ UNCHANGED reg_vars
    /\ UNCHANGED repl

(* ======================================================================= *)
(* Debuggee::resume (debuggee.rs:240-260)                                  *)
(* ======================================================================= *)
(* Variants of resume_state: Running assigned before the request's result  *)
(* is known; Running never assigned.                                       *)
resume_state_early(ps, cont_ok) == IF ps.tag \in {"Stopped", "Running"} THEN Running ELSE ps
resume_state_stale(ps, cont_ok) == ps

(* The match on self.process_state: which arm is taken. *)
resume_allowed(ps) == ps.tag \in {"Stopped", "Running"}

(* ptrace::cont(self.pid, None)?; self.process_state = Running: the state  *)
(* after the call, given whether the kernel accepted the request.          *)
resume_state(ps, cont_ok) == IF resume_allowed(ps) /\ cont_ok THEN Running ELSE ps

(* A variant of resume that stores the snapshot in the process first. *)
resume_requests_setregs(ps) ==
    IF resume_allowed(ps) THEN <<"PTRACE_SETREGS", "PTRACE_CONT">> ELSE <<>>

(* The requests resume issues in state ps. *)
resume_requests(ps) == IF resume_allowed(ps) THEN <<"PTRACE_CONT">> ELSE <<>>

resume ==
    /\ pc = "idle" /\ exists
    /\ call' = Call("resume", FALSE, "")
    /\ LET issued == resume_requests(process_state) # <<>>
           cont_ok == issued /\ InPtraceStop
       IN /\ process_state' = resume_state(process_state, cont_ok)
          /\ proc' = IF cont_ok THEN "running" ELSE proc
          /\ wait_status' = IF cont_ok THEN NoStatus ELSE wait_status
          /\ ret' = Ret("resume",
                        resume_allowed(process_state) /\ cont_ok,
                        IF ~resume_allowed(process_state) THEN "terminal"
                        ELSE IF cont_ok THEN "" ELSE "ESRCH",
                        "none", process_state, FALSE, resume_requests(process_state))
    /\ UNCHANGED <<exists, should_terminate, registers, pc, traced, is_child, os_regs>>
    /\ UNCHANGED spawn_vars
    /\ UNCHANGED reg_vars
    /\ UNCHANGED repl

(* ======================================================================= *)
(* Registers::write_register through Debuggee::registers_mut               *)
(* ======================================================================= *)
registers_mut_write_register ==
    /\ pc = "idle" /\ exists /\ registers # None
    /\ \E part \in UserParts, v \in RegVals :
         /\ registers[1][part] # v
         /\ registers' = Some(write_register(registers[1], part, v))
    /\ call' = Call("write_register", FALSE, "")
    /\ ret' = Ret("write_register", TRUE, "", "none", process_state, FALSE, <<>>)
    /\ UNCHANGED <<exists, process_state, should_terminate, pc>>
    /\ UNCHANGED os_vars
    /\ UNCHANGED spawn_vars
    /\ UNCHANGED reg_vars
    /\ UNCHANGED repl

(* ======================================================================= *)
(* Debuggee::new (debuggee.rs:83-115), attach (117-130), launch (132-161)  *)
(* ======================================================================= *)

(* A new controller may be built: none exists and no spawn is under way. *)
CanCreate ==
    /\ pc = "idle" /\ ~exists
    /\ child_pc \in {"none", "done"}

(* An exited child of an earlier, failed launch stays behind as a zombie. *)
LeftBehind == zombies + (IF proc = "zombie" /\ is_child THEN 1 ELSE 0)

AttachResults == {"OK", "ESRCH", "EPERM"}

(* Variant of attach_ok: the result of the attach request is ignored. *)
attach_ok_always(r) == TRUE

(* Debuggee::attach: Ok(()) when ptrace::attach succeeded, otherwise the   *)
(* error "unable to attach to debuggee process: <errno>".                  *)
attach_ok(r) == r = "OK"
AttachError(r) ==
    CASE r = "OK" -> ""
      [] r = "ESRCH" -> "unable to attach to debuggee process: ESRCH"
      [] OTHER -> "unable to attach to debuggee process: EPERM"

(* Config::Existing(pid): ptrace::attach, then the struct literal.  The    *)
(* initial update_process_state(true) follows in new_wait_returns.         *)
new_Existing ==
    /\ CanCreate
    /\ LeftBehind <= MaxZombies
    /\ zombies' = LeftBehind
    /\ \E r \in AttachResults :
         /\ call' = Call("new", TRUE, AttachError(r))
         /\ IF attach_ok(r)
            THEN /\ proc' = "running" /\ traced' = TRUE /\ is_child' = FALSE
                 /\ wait_status' = NoStatus
                 /\ exists' = TRUE
                 /\ process_state' = Stopped(None)
                 /\ should_terminate' = FALSE
                 /\ registers' = None
                 /\ pc' = "new_wait"
                 /\ UNCHANGED ret
            ELSE /\ proc' = "none" /\ traced' = FALSE /\ is_child' = FALSE
                 /\ wait_status' = NoStatus
                 /\ ret' = Ret("new", FALSE, AttachError(r), "none", process_state, FALSE,
                               <<"PTRACE_ATTACH">>)
              /\ UNCHANGED <<exists, process_state, should_terminate, registers, pc>>
    /\ pipe_data' = "" /\ child_fail' = "" /\ child_pc' = "none"
    /\ UNCHANGED <<os_regs, pipe_w>>
    /\ UNCHANGED reg_vars
    /\ UNCHANGED repl

(* Config::SpawnChild(args), launch up to the fork: pipe2(O_CLOEXEC) and   *)
(* fork may each fail; after the fork both processes hold the write end.   *)
LaunchResults == {"OK", "pipe2", "fork"}
launch_fork ==
    /\ CanCreate
    /\ LeftBehind < MaxZombies
    /\ zombies' = LeftBehind
    /\ traced' = FALSE /\ wait_status' = NoStatus
    /\ pipe_data' = "" /\ child_fail' = ""
    /\ \E r \in LaunchResults :
         IF r = "OK"
         THEN /\ proc' = "preexec"
              /\ is_child' = TRUE
              /\ child_pc' = "start"
              /\ pipe_w' = {"parent", "child"}
              /\ pc' = "launch_drop"
              /\ call' = Call("new", TRUE, "")
              /\ UNCHANGED ret
         ELSE /\ proc' = "none"
              /\ is_child' = FALSE
              /\ child_pc' = "none"
              /\ pipe_w' = {}
              /\ call' = Call("new", TRUE, r)
              /\ ret' = Ret("new", FALSE, r, "none", process_state, FALSE, <<>>)
              /\ UNCHANGED pc
    /\ UNCHANGED <<exists, process_state, should_terminate, registers, os_regs>>
    /\ UNCHANGED reg_vars
    /\ UNCHANGED repl

(* Variant of close_write_end: the descriptor stays open. *)
close_write_end_leak(w, holder) == w

(* A holder's copy of the pipe's write end is closed: drop of the OwnedFd  *)
(* or of the File made from it, close-on-exec, or the end of the process.  *)
close_write_end(w, holder) == w \ {holder}

(* Parent: drop(error_reporting_pipe_write_end). *)
launch_drop_write_end ==
    /\ pc = "launch_drop"
    /\ pipe_w' = close_write_end(pipe_w, "parent")
    /\ pc' = "launch_read"
    /\ UNCHANGED <<exists, process_state, should_terminate, registers, call, ret>>
    /\ UNCHANGED os_vars
    /\ UNCHANGED <<child_pc, child_fail, pipe_data, zombies>>
    /\ UNCHANGED reg_vars
    /\ UNCHANGED repl

(* Parent: read_to_string returns at end-of-stream, that is once no write  *)
(* end is open.  A non-empty message fails the launch; otherwise the       *)
(* struct literal of new is built.                                         *)
launch_read_returns ==
    /\ pc = "launch_read"
    /\ pipe_w = {}
    /\ IF pipe_data # ""
       THEN /\ ret' = Ret("new", FALSE, pipe_data, "none", process_state, FALSE, <<>>)
            /\ call' = Call("new", TRUE, pipe_data)
            /\ pc' = "idle"
            /\ UNCHANGED <<exists, process_state, should_terminate, registers>>
       ELSE /\ exists' = TRUE
            /\ process_state' = Stopped(None)
            /\ should_terminate' = TRUE
            /\ registers' = None
            /\ pc' = "new_wait"
            /\ UNCHANGED <<call, ret>>
    /\ UNCHANGED os_vars
    /\ UNCHANGED spawn_vars
    /\ UNCHANGED reg_vars
    /\ UNCHANGED repl

(* A variant of new_wait_returns in which the failing new gives up the     *)
(* controller without running its teardown.                                *)
new_wait_returns_forget ==
    /\ pc = "new_wait"
    /\ \E o \in UpdateOutcomes(TRUE) :
         /\ ApplyOutcome(o)
         /\ pc' = "idle"
         /\ exists' = o.ok
         /\ ret' = Ret("new", o.ok, o.err, o.wait, process_state, o.fetched, o.reqs)
         /\ call' = Call("new", TRUE, o.err)
    /\ UNCHANGED <<should_terminate, is_child, os_regs>>
    /\ UNCHANGED spawn_vars
    /\ UNCHANGED reg_vars
    /\ UNCHANGED repl

(* The initial update_process_state(true) of new returns.  On success the  *)
(* controller is handed to the caller; on error the local value is dropped *)
(* before new returns (new_unwind, see drop).                              *)
new_wait_returns ==
    /\ pc = "new_wait"
    /\ \E o \in UpdateOutcomes(TRUE) :
         /\ ApplyOutcome(o)
         /\ IF o.ok
            THEN /\ pc' = "idle"
                 /\ ret' = Ret("new", TRUE, "", o.wait, process_state, o.fetched, o.reqs)
                 /\ UNCHANGED call
            ELSE /\ pc' = "new_unwind"
                 /\ call' = Call("new", TRUE, o.err)
                 /\ UNCHANGED ret
    /\ UNCHANGED <<exists, should_terminate, is_child, os_regs>>
    /\ UNCHANGED spawn_vars
    /\ UNCHANGED reg_vars
    /\ UNCHANGED repl

(* ======================================================================= *)
(* The forked child: launch's Child arm and exec_traceme (163-196)         *)
(* ======================================================================= *)

(* err.to_string() of the two errors exec_traceme can report. *)
ErrorMessage(fail) ==
    IF fail = "traceme" THEN "unable to set traceme: EPERM"
    ELSE "ENOENT: No such file or directory"

(* drop(read end), then the CString conversion of the arguments: unwrap    *)
(* panics on an argument with an interior NUL; unwinding closes the write  *)
(* end without a message.                                                  *)
child_args ==
    /\ child_pc = "start"
    /\ \E nul \in BOOLEAN :
         IF nul
         THEN /\ child_pc' = "panicked"
              /\ child_fail' = "panic"
              /\ pipe_w' = close_write_end(pipe_w, "child")
         ELSE /\ child_pc' = "traceme"
              /\ UNCHANGED <<child_fail, pipe_w>>
    /\ UNCHANGED <<pipe_data, zombies>>
    /\ UNCHANGED ctl_vars
    /\ UNCHANGED os_vars
    /\ UNCHANGED reg_vars
    /\ UNCHANGED repl

(* ptrace::traceme() *)
child_traceme ==
    /\ child_pc = "traceme"
    /\ \E ok \in BOOLEAN :
         IF ok
         THEN /\ traced' = TRUE
              /\ child_pc' = "exec"
              /\ UNCHANGED child_fail
         ELSE /\ child_fail' = "traceme"
              /\ child_pc' = "write_err"
              /\ UNCHANGED traced
    /\ UNCHANGED <<proc, is_child, wait_status, os_regs>>
    /\ UNCHANGED <<pipe_w, pipe_data, zombies>>
    /\ UNCHANGED ctl_vars
    /\ UNCHANGED reg_vars
    /\ UNCHANGED repl

(* execvp: on success the close-on-exec write end is closed and the        *)
(* tracee stops with SIGTRAP before its first instruction.                 *)
child_exec ==
    /\ child_pc = "exec"
    /\ \E ok \in BOOLEAN :
         IF ok
         THEN /\ pipe_w' = close_write_end(pipe_w, "child")
              /\ proc' = "stopped"
              /\ wait_status' = WS("Stopped", SIGTRAP)
              /\ child_pc' = "done"
              /\ UNCHANGED child_fail
         ELSE /\ child_fail' = "exec"
              /\ child_pc' = "write_err"
              /\ UNCHANGED <<pipe_w, proc, wait_status>>
    /\ UNCHANGED <<traced, is_child, os_regs, pipe_data, zombies>>
    /\ UNCHANGED ctl_vars
    /\ UNCHANGED reg_vars
    /\ UNCHANGED repl

(* File::from(write end).write_all(err.to_string()); the temporary File is *)
(* closed at the end of the statement.                                     *)
child_write_error ==
    /\ child_pc = "write_err"
    /\ pipe_data' = ErrorMessage(child_fail)
    /\ pipe_w' = close_write_end(pipe_w, "child")
    /\ child_pc' = "exit"
    /\ UNCHANGED <<child_fail, zombies>>
    /\ UNCHANGED ctl_vars
    /\ UNCHANGED os_vars
    /\ UNCHANGED reg_vars
    /\ UNCHANGED repl

(* exit(EXIT_FAILURE), or the end of the panicking child. *)
child_exit ==
    /\ child_pc \in {"exit", "panicked"}
    /\ proc' = "zombie"
    /\ wait_status' = WS("Exited", IF child_pc = "exit" THEN EXIT_FAILURE ELSE PANIC_EXIT_CODE)
    /\ child_pc' = "done"
    /\ UNCHANGED <<traced, is_child, os_regs>>
    /\ UNCHANGED <<child_fail, pipe_w, pipe_data, zombies>>
    /\ UNCHANGED ctl_vars
    /\ UNCHANGED reg_vars
    /\ UNCHANGED repl

(* ======================================================================= *)
(* Drop for Debuggee (debuggee.rs:278-330)                                 *)
(* ======================================================================= *)
DropEnd(p, t, w, z, reqs) == [proc |-> p, traced |-> t, wstat |-> w, zombies |-> z, reqs |-> reqs]

(* wait(): reaps one exited child of the debugger, this controller's or    *)
(* any other; ECHILD when there is none.                                   *)
WaitAny(p, t, w, z, reqs) ==
    (IF p = "zombie" /\ is_child THEN {DropEnd("gone", FALSE, NoStatus, z, reqs \o <<"wait">>)} ELSE {})
    \cup (IF z > 0 THEN {DropEnd(p, t, w, z - 1, reqs \o <<"wait">>)} ELSE {})
    \cup (IF z = 0 /\ ~(p = "zombie" /\ is_child) THEN {DropEnd(p, t, w, z, reqs \o <<"wait">>)} ELSE {})

(* Variant of Terminate: an owned child is neither killed nor reaped. *)
Terminate_nokill(p, t, w, reqs) ==
    IF should_terminate
    THEN WaitAny(p, t, w, zombies, reqs)
    ELSE {DropEnd(p, t, w, zombies, reqs)}

(* Lines 311-328 for a process that exists: an owned child is killed and   *)
(* reaped with waitpid(pid, None), then wait() is called.                  *)
Terminate(p, t, w, reqs) ==
    IF should_terminate
    THEN WaitAny("gone", FALSE, NoStatus, zombies, reqs \o <<"kill SIGKILL", "waitpid">>)
    ELSE {DropEnd(p, t, w, zombies, reqs)}

(* Lines 290-329, after the status update left the controller in state ps  *)
(* and the kernel in (p, t, w).                                            *)
DropRest(ps, p, t, w) ==
    IF ~is_alive(ps)
    THEN IF should_terminate THEN WaitAny(p, t, w, zombies, <<>>)
         ELSE {DropEnd(p, t, w, zombies, <<>>)}
    ELSE IF ~ProcessExists(p)
    THEN {DropEnd(p, t, w, zombies, <<"kill SIGSTOP">>)}
    ELSE LET reqs == <<"kill SIGSTOP", "PTRACE_DETACH", "kill SIGCONT">> IN
         (* a dead process: detach is refused, the signals change nothing *)
         (IF p = "zombie" THEN Terminate(p, t, w, reqs) ELSE {})
         (* the tracee is, or gets, stopped in time: detach is accepted and *)
         (* the process continues untraced                                  *)
         \cup (IF p # "zombie" /\ t THEN Terminate("running", FALSE, NoStatus, reqs) ELSE {})
         (* the tracee was running and SIGSTOP has not stopped it when      *)
         (* detach is issued: detach is refused; SIGCONT then either        *)
         (* cancels the pending SIGSTOP or finds the tracee already in its  *)
         (* signal-delivery-stop, which SIGCONT does not end                *)
         \cup (IF p \in {"preexec", "running"}
               THEN Terminate(p, t, w, reqs) \cup Terminate("stopped", t, WS("Stopped", SIGSTOP), reqs)
               ELSE {})

DropFinish(o, unwinding, err) ==
    \E d \in DropRest(o.ps, o.proc, o.traced, o.wstat) :
        /\ process_state' = o.ps
        /\ registers' = o.regs
        /\ proc' = d.proc
        /\ traced' = d.traced
        /\ wait_status' = d.wstat
        /\ zombies' = d.zombies
        /\ exists' = FALSE
        /\ pc' = "idle"
        /\ ret' = IF unwinding
                  THEN Ret("new", FALSE, err, "none", process_state, FALSE, o.reqs \o d.reqs)
                  ELSE Ret("drop", TRUE, "", o.wait, process_state, o.fetched, o.reqs \o d.reqs)

(* The controller goes out of scope: at the caller's choice, or inside new *)
(* when the initial update failed.  The teardown starts with               *)
(* update_process_state(false); were that to block, the caller would be    *)
(* parked like any other waiter.                                           *)
drop ==
    /\ exists
    /\ pc \in {"idle", "new_unwind"}
    /\ call' = IF pc = "idle" THEN Call("drop", FALSE, "") ELSE Call("new_drop", FALSE, call.err)
    /\ IF UpdateOutcomes(FALSE) = {}
       THEN /\ pc' = "update_wait"
            /\ UNCHANGED <<exists, process_state, registers, ret, proc, traced, wait_status, zombies>>
       ELSE \E o \in UpdateOutcomes(FALSE) : DropFinish(o, pc = "new_unwind", call.err)
    /\ UNCHANGED <<should_terminate, is_child, os_regs>>
    /\ UNCHANGED <<child_pc, child_fail, pipe_w, pipe_data>>
    /\ UNCHANGED reg_vars
    /\ UNCHANGED repl

(* A blocked waitpid returns and the handler that called it runs to its    *)
(* end: update_process_state itself, or the teardown that started with it. *)
update_wait_returns ==
    /\ pc = "update_wait"
    /\ \E o \in UpdateOutcomes(call.blocking) :
         IF call.op \in {"drop", "new_drop"}
         THEN DropFinish(o, call.op = "new_drop", call.err)
         ELSE /\ ApplyOutcome(o)
              /\ ret' = Ret("update", o.ok, o.err, o.wait, process_state, o.fetched, o.reqs)
              /\ pc' = "idle"
              /\ UNCHANGED <<exists, zombies>>
    /\ UNCHANGED <<should_terminate, call, is_child, os_regs>>
    /\ UNCHANGED <<child_pc, child_fail, pipe_w, pipe_data>>
    /\ UNCHANGED reg_vars
    /\ UNCHANGED repl

(* ======================================================================= *)
(* The traced process itself                                               *)
(* ======================================================================= *)

(* A running tracee is stopped by a signal; the tracer is told by wait. *)
proc_stops ==
    /\ proc = "running" /\ traced
    /\ \E sig \in StopSignals, v \in RegVals :
         /\ wait_status' = WS("Stopped", sig)
         /\ os_regs' = v
    /\ proc' = "stopped"
    /\ UNCHANGED <<traced, is_child>>
    /\ UNCHANGED ctl_vars
    /\ UNCHANGED spawn_vars
    /\ UNCHANGED reg_vars
    /\ UNCHANGED repl

(* A running process exits by itself. *)
proc_exits ==
    /\ proc = "running" /\ (traced \/ is_child)
    /\ \E code \in ExitCodes : wait_status' = WS("Exited", code)
    /\ proc' = "zombie"
    /\ UNCHANGED <<traced, is_child, os_regs>>
    /\ UNCHANGED ctl_vars
    /\ UNCHANGED spawn_vars
    /\ UNCHANGED reg_vars
    /\ UNCHANGED repl

(* Somebody sends SIGKILL: it ends a running and a stopped tracee alike. *)
proc_killed ==
    /\ proc \in {"running", "stopped"} /\ (traced \/ is_child)
    /\ wait_status' = WS("Signaled", SIGKILL)
    /\ proc' = "zombie"
    /\ UNCHANGED <<traced, is_child, os_regs>>
    /\ UNCHANGED ctl_vars
    /\ UNCHANGED spawn_vars
    /\ UNCHANGED reg_vars
    /\ UNCHANGED repl


(* wait() at the end of the teardown of another owning controller of the   *)
(* same debugger (debuggee.rs:327) waits for any child: it reaps this      *)
(* controller's child once that has exited.                                *)
other_teardown_wait_reaps ==
    /\ pc = "idle" /\ exists
    /\ proc = "zombie" /\ is_child
    /\ proc' = "gone"
    /\ traced' = FALSE
    /\ wait_status' = NoStatus
    /\ UNCHANGED <<is_child, os_regs>>
    /\ UNCHANGED ctl_vars
    /\ UNCHANGED spawn_vars
    /\ UNCHANGED reg_vars
    /\ UNCHANGED repl

(* ======================================================================= *)
Next ==
    \/ new_Existing
    \/ launch_fork
    \/ launch_drop_write_end
    \/ launch_read_returns
    \/ new_wait_returns
    \/ child_args
    \/ child_traceme
    \/ child_exec
    \/ child_write_error
    \/ child_exit
    \/ \E blocking \in BOOLEAN : update_process_state(blocking)
    \/ update_wait_returns
    \/ resume
    \/ registers_mut_write_register
    \/ drop
    \/ proc_stops
    \/ proc_exits
    \/ proc_killed
    \/ other_teardown_wait_reaps

Spec == Init /\ [][Next]_vars

(* The scheduler keeps running both processes of a spawn: every step of    *)
(* the pre-exec child and of the parent inside launch is taken once it is  *)
(* enabled.                                                                *)
SpawnFairness ==
    /\ WF_vars(launch_drop_write_end)
    /\ WF_vars(launch_read_returns)
    /\ WF_vars(child_args)
    /\ WF_vars(child_traceme)
    /\ WF_vars(child_exec)
    /\ WF_vars(child_write_error)
    /\ WF_vars(child_exit)

FairSpec == Init /\ [][Next]_vars /\ SpawnFairness


(* ======================================================================= *)
(* The register catalog (register.rs:28-173) as define_amd64_registers     *)
(* (helper-proc-macros/src/define_amd64_registers.rs) expands it           *)
(* ======================================================================= *)

(* The parsed directives: struct Gpr64, GprSub, Fpr and RId. *)
RegDef(def, name, dwarf_id, field, id, width, offset_on_base) ==
    [def |-> def, name |-> name, dwarf_id |-> dwarf_id, field |-> field, id |-> id,
     byte_width |-> width, offset_on_base |-> offset_on_base]
parse_gpr_sub(byte_width, offset_on_base, name, base_name) ==
    RegDef("GprSub", name, None, base_name, 0, byte_width, offset_on_base)
gpr_64(name, dwarf_id) == RegDef("Gpr64", name, dwarf_id, name, 0, 0, 0)
gpr_32(name, base_name) == parse_gpr_sub(4, 0, name, base_name)
gpr_16(name, base_name) == parse_gpr_sub(2, 0, name, base_name)
gpr_8l(name, base_name) == parse_gpr_sub(1, 0, name, base_name)
gpr_8h_low(name, base_name) == parse_gpr_sub(1, 0, name, base_name)
gpr_8h(name, base_name) == parse_gpr_sub(1, 1, name, base_name)
fpr(name, name_in_fpregs_struct, dwarf_id) ==
    RegDef("Fpr", name, dwarf_id, name_in_fpregs_struct, 0, 0, 0)
fp_st(id) == RegDef("FpSt", "st" \o ToString(id), None, "st_space", id, 0, 0)
fp_mm(id) == RegDef("FpMM", "mm" \o ToString(id), None, "st_space", id, 0, 0)
fp_xmm(id) == RegDef("FpXMM", "xmm" \o ToString(id), None, "xmm_space", id, 0, 0)
dr(id) == RegDef("Dr", "dr" \o ToString(id), None, "", id, 0, 0)

(* Register::all_variants(): the directives of register.rs in their order. *)
all_variants == <<
    gpr_64("rax", Some(0)), gpr_64("rdx", Some(1)), gpr_64("rcx", Some(2)),
    gpr_64("rbx", Some(3)), gpr_64("rsi", Some(4)), gpr_64("rdi", Some(5)),
    gpr_64("rbp", Some(6)), gpr_64("rsp", Some(7)), gpr_64("r8", Some(8)),
    gpr_64("r9", Some(9)), gpr_64("r10", Some(10)), gpr_64("r11", Some(11)),
    gpr_64("r12", Some(12)), gpr_64("r13", Some(13)),
    gpr_64("r14", Some(14)), gpr_64("r15", Some(15)),
    gpr_64("rip", Some(16)), gpr_64("eflags", Some(49)),
    gpr_64("es", Some(50)), gpr_64("cs", Some(51)), gpr_64("ss", Some(52)),
    gpr_64("ds", Some(53)), gpr_64("fs", Some(54)), gpr_64("gs", Some(55)),
    gpr_64("orig_rax", None), gpr_32("eax", "rax"), gpr_32("ebx", "rbx"),
    gpr_32("ecx", "rcx"), gpr_32("edx", "rdx"), gpr_32("esi", "rsi"),
    gpr_32("edi", "rdi"), gpr_32("ebp", "rbp"), gpr_32("esp", "rsp"),
    gpr_32("r8d", "r8"), gpr_32("r9d", "r9"), gpr_32("r10d", "r10"),
    gpr_32("r11d", "r11"), gpr_32("r12d", "r12"), gpr_32("r13d", "r13"),
    gpr_32("r14d", "r14"), gpr_32("r15d", "r15"), gpr_16("ax", "rax"),
    gpr_16("bx", "rbx"), gpr_16("cx", "rcx"), gpr_16("dx", "rdx"),
    gpr_16("si", "rsi"), gpr_16("di", "rdi"), gpr_16("bp", "rbp"),
    gpr_16("sp", "rsp"), gpr_16("r8w", "r8"), gpr_16("r9w", "r9"),
    gpr_16("r10w", "r10"), gpr_16("r11w", "r11"), gpr_16("r12w", "r12"),
    gpr_16("r13w", "r13"), gpr_16("r14w", "r14"), gpr_16("r15w", "r15"),
    gpr_8l("al", "rax"), gpr_8l("bl", "rbx"), gpr_8l("cl", "rcx"),
    gpr_8l("dl", "rdx"), gpr_8l("sil", "rsi"), gpr_8l("dil", "rdi"),
    gpr_8l("bpl", "rbp"), gpr_8l("spl", "rsp"), gpr_8l("r8b", "r8"),
    gpr_8l("r9b", "r9"), gpr_8l("r10b", "r10"), gpr_8l("r11b", "r11"),
    gpr_8l("r12b", "r12"), gpr_8l("r13b", "r13"), gpr_8l("r14b", "r14"),
    gpr_8l("r15b", "r15"), gpr_8h("ah", "rax"), gpr_8h("bh", "rbx"),
    gpr_8h("ch", "rcx"), gpr_8h("dd", "rdx"), fpr("fcw", "cwd", Some(65)),
    fpr("fsw", "swd", Some(66)), fpr("ftw", "ftw", None),
    fpr("fop", "fop", None), fpr("frip", "rip", None),
    fpr("frdp", "rdp", None), fpr("mxcsr", "mxcsr", Some(64)),
    fpr("mxcsrmask", "mxcr_mask", None), fp_st(0), fp_st(1), fp_st(2),
    fp_st(3), fp_st(4), fp_st(5), fp_st(6), fp_st(7), fp_mm(0), fp_mm(1),
    fp_mm(2), fp_mm(3), fp_mm(4), fp_mm(5), fp_mm(6), fp_mm(7), fp_xmm(0),
    fp_xmm(1), fp_xmm(2), fp_xmm(3), fp_xmm(4), fp_xmm(5), fp_xmm(6),
    fp_xmm(7), fp_xmm(8), fp_xmm(9), fp_xmm(10), fp_xmm(11), fp_xmm(12),
    fp_xmm(13), fp_xmm(14), fp_xmm(15), dr(0), dr(1), dr(2), dr(3), dr(4),
    dr(5), dr(6), dr(7)
>>

(* The enum Register. *)
Register == {all_variants[i] : i \in 1..Len(all_variants)}

(* A variant of dwarf_id_expr: the number of an MMX alias is computed as   *)
(* that of its stack slot.                                                 *)
dwarf_id_mm_as_st(d) ==
    CASE d.def \in {"Gpr64", "Fpr"} -> d.dwarf_id
      [] d.def = "GprSub" -> None
      [] d.def \in {"FpSt", "FpMM"} -> Some(33 + d.id)
      [] d.def = "FpXMM" -> Some(17 + d.id)
      [] d.def = "Dr" -> None

(* RegDef::dwarf_id_expr *)
dwarf_id(d) ==
    CASE d.def \in {"Gpr64", "Fpr"} -> d.dwarf_id
      [] d.def = "GprSub" -> None
      [] d.def = "FpSt" -> Some(33 + d.id)
      [] d.def = "FpMM" -> Some(41 + d.id)
      [] d.def = "FpXMM" -> Some(17 + d.id)
      [] d.def = "Dr" -> None

(* A variant of final_offset_expr that packs the MMX aliases 8 bytes apart. *)
final_offset_mm_packed(d) ==
    CASE d.def \in {"Gpr64", "Fpr"} -> 0
      [] d.def = "GprSub" -> d.offset_on_base
      [] d.def \in {"FpSt", "FpXMM"} -> d.id * 16
      [] d.def \in {"FpMM", "Dr"} -> d.id * 8

(* RegDef::final_offset_expr *)
final_offset(d) ==
    CASE d.def \in {"Gpr64", "Fpr"} -> 0
      [] d.def = "GprSub" -> d.offset_on_base
      [] d.def \in {"FpSt", "FpMM", "FpXMM"} -> d.id * 16
      [] d.def = "Dr" -> d.id * 8

(* RegDef::field_in_user_struct_ident *)
field_in_user_struct(d) ==
    CASE d.def \in {"Gpr64", "GprSub"} -> "regs"
      [] d.def \in {"Fpr", "FpSt", "FpMM", "FpXMM"} -> "i387"
      [] d.def = "Dr" -> "u_debugreg"

(* core::mem::offset_of! on libc::user, libc::user_regs_struct and         *)
(* libc::user_fpregs_struct (x86_64 Linux).                                *)
offset_of_user(field) ==
    CASE field = "regs" -> 0
      [] field = "i387" -> 224
      [] field = "u_debugreg" -> 848
user_regs_struct_fields ==
    <<"r15", "r14", "r13", "r12", "rbp", "rbx", "r11", "r10", "r9", "r8", "rax", "rcx",
      "rdx", "rsi", "rdi", "orig_rax", "rip", "cs", "eflags", "rsp", "ss", "fs_base",
      "gs_base", "ds", "es", "fs", "gs">>
offset_of_user_regs_struct(field) ==
    8 * ((CHOOSE i \in 1..Len(user_regs_struct_fields) : user_regs_struct_fields[i] = field) - 1)
offset_of_user_fpregs_struct(field) ==
    CASE field = "cwd" -> 0
      [] field = "swd" -> 2
      [] field = "ftw" -> 4
      [] field = "fop" -> 6
      [] field = "rip" -> 8
      [] field = "rdp" -> 16
      [] field = "mxcsr" -> 24
      [] field = "mxcr_mask" -> 28
      [] field = "st_space" -> 32
      [] field = "xmm_space" -> 160

(* field_size!: the size of the named field, taken in the structure that   *)
(* has a field of that name (user_fpregs_struct).                          *)
field_size(field) ==
    CASE field \in {"cwd", "swd", "ftw", "fop"} -> 2
      [] field \in {"mxcsr", "mxcr_mask"} -> 4
      [] field \in {"rip", "rdp"} -> 8

(* RegDef::offset_in_user_struct_expr: first level + second level + final. *)
offset_in_user_struct(d) ==
    offset_of_user(field_in_user_struct(d))
    + (CASE d.def \in {"Gpr64", "GprSub"} -> offset_of_user_regs_struct(d.field)
         [] d.def \in {"Fpr", "FpSt", "FpMM", "FpXMM"} -> offset_of_user_fpregs_struct(d.field)
         [] d.def = "Dr" -> 0)
    + final_offset(d)

(* RegDef::kind_expr *)
kind(d) ==
    CASE d.def = "Gpr64" -> "GeneralPurpose"
      [] d.def = "GprSub" -> "SubGeneralPurpose"
      [] d.def \in {"Fpr", "FpSt", "FpMM", "FpXMM"} -> "FloatingPoint"
      [] d.def = "Dr" -> "Debug"

(* RegDef::repr_expr *)
repr(d) ==
    CASE d.def \in {"Gpr64", "GprSub", "Fpr", "Dr"} -> "UInt"
      [] d.def = "FpSt" -> "LongDouble"
      [] d.def \in {"FpMM", "FpXMM"} -> "Vector"

(* A variant of byte_width_expr that takes the vector registers for 256-bit *)
(* ones.                                                                   *)
byte_width_ymm(d) ==
    CASE d.def \in {"Gpr64", "FpMM", "Dr"} -> 8
      [] d.def = "GprSub" -> d.byte_width
      [] d.def = "Fpr" -> field_size(d.field)
      [] d.def = "FpSt" -> 16
      [] d.def = "FpXMM" -> 32

(* RegDef::byte_width_expr *)
byte_width(d) ==
    CASE d.def = "Gpr64" -> 8
      [] d.def = "GprSub" -> d.byte_width
      [] d.def = "Fpr" -> field_size(d.field)
      [] d.def = "FpSt" -> 16
      [] d.def = "FpMM" -> 8
      [] d.def = "FpXMM" -> 16
      [] d.def = "Dr" -> 8


(* ======================================================================= *)
(* Reading and writing a snapshot (register.rs:196-373)                    *)
(* ======================================================================= *)

(* enum RegisterValue; a value is its variant and its bytes in memory      *)
(* order, which is what as_u8_ptr gives access to.                         *)
RegisterValueVariants ==
    {"U8", "U16", "U32", "U64", "I8", "I16", "I32", "I64", "F128", "Byte64", "Byte128"}
RegisterValue(variant, bytes) == [variant |-> variant, bytes |-> bytes]

(* size_of the payload type of a variant. *)
size_of(variant) ==
    CASE variant \in {"U8", "I8"} -> 1
      [] variant \in {"U16", "I16"} -> 2
      [] variant \in {"U32", "I32"} -> 4
      [] variant \in {"U64", "I64", "Byte64"} -> 8
      [] variant \in {"F128", "Byte128"} -> 16

(* RegisterValue::byte_width *)
value_byte_width(value) == size_of(value.variant)

(* aux::read_any_from_u8_pointer<T>(from_ptr, size) (register.rs calls it  *)
(* read_any_from_void_pointer): a zeroed T whose first size bytes are      *)
(* copied from the buffer; the assertion size_of::<T>() >= size panics.    *)
Panic == [variant |-> "panic", bytes |-> <<>>]
read_any_from_u8_pointer(variant, user, from_ptr, size) ==
    IF size_of(variant) < size THEN Panic
    ELSE RegisterValue(variant,
                       [i \in 1..size_of(variant) |-> IF i <= size THEN user[from_ptr + i - 1] ELSE 0])

(* Register::read_from_user_struct *)
read_from_user_struct(d, user) ==
    LET w == byte_width(d)
        ptr == offset_in_user_struct(d)
    IN CASE repr(d) = "UInt" /\ w = 1 -> read_any_from_u8_pointer("U8", user, ptr, 1)
         [] repr(d) = "UInt" /\ w = 2 -> read_any_from_u8_pointer("U16", user, ptr, 2)
         [] repr(d) = "UInt" /\ w = 4 -> read_any_from_u8_pointer("U32", user, ptr, 4)
         [] repr(d) = "UInt" /\ w = 8 -> read_any_from_u8_pointer("U64", user, ptr, 8)
         [] repr(d) = "LongDouble" -> read_any_from_u8_pointer("F128", user, ptr, w)
         [] repr(d) = "Vector" /\ w <= 8 -> read_any_from_u8_pointer("Byte64", user, ptr, w)
         [] repr(d) = "Vector" /\ w > 8 /\ w <= 16 -> read_any_from_u8_pointer("Byte128", user, ptr, w)
         [] OTHER -> Panic

(* <*const u8>::copy_to(dst, count) with dst inside a snapshot: count      *)
(* bytes of src replace the bytes of the snapshot from offset dst on.      *)
RECURSIVE copy_to(_, _, _, _)
copy_to(src, user, dst, count) ==
    IF count = 0 THEN user
    ELSE copy_to(src, [user EXCEPT ![dst + count - 1] = src[count]], dst, count - 1)

(* iter::repeat(0u8).take(byte_width) *)
zeroed(width) == [i \in 1..width |-> 0]

(* Variants of copy_to_user_struct: the lane is zeroed after the copy      *)
(* instead of before it; the lane is not zeroed at all; the zero fill      *)
(* covers eight bytes for a narrower register; the width is not checked    *)
(* and the payload is cut to the lane.                                     *)
copy_to_user_struct_zero_last(d, from, to_user, value_width) ==
    IF byte_width(d) < value_width THEN [ok |-> FALSE, user |-> to_user]
    ELSE [ok |-> TRUE,
          user |-> copy_to(zeroed(byte_width(d)),
                           copy_to(from, to_user, offset_in_user_struct(d), value_width),
                           offset_in_user_struct(d), byte_width(d))]
copy_to_user_struct_nofill(d, from, to_user, value_width) ==
    IF byte_width(d) < value_width THEN [ok |-> FALSE, user |-> to_user]
    ELSE [ok |-> TRUE, user |-> copy_to(from, to_user, offset_in_user_struct(d), value_width)]
copy_to_user_struct_widefill(d, from, to_user, value_width) ==
    IF byte_width(d) < value_width THEN [ok |-> FALSE, user |-> to_user]
    ELSE [ok |-> TRUE,
          user |-> copy_to(from,
                           copy_to(zeroed(16), to_user, offset_in_user_struct(d),
                                   IF byte_width(d) < 8 THEN 8 ELSE byte_width(d)),
                           offset_in_user_struct(d), value_width)]
copy_to_user_struct_nocheck(d, from, to_user, value_width) ==
    [ok |-> byte_width(d) >= value_width,
     user |-> copy_to(from,
                      copy_to(zeroed(byte_width(d)), to_user, offset_in_user_struct(d), byte_width(d)),
                      offset_in_user_struct(d),
                      IF value_width < byte_width(d) THEN value_width ELSE byte_width(d))]

(* Register::copy_to_user_struct: the size check, the zero fill of the     *)
(* whole lane, then the copy of the payload to the start of the lane.      *)
copy_to_user_struct(d, from, to_user, value_width) ==
    IF byte_width(d) < value_width THEN [ok |-> FALSE, user |-> to_user]
    ELSE [ok |-> TRUE,
          user |-> copy_to(from,
                           copy_to(zeroed(byte_width(d)), to_user, offset_in_user_struct(d), byte_width(d)),
                           offset_in_user_struct(d), value_width)]

(* Register::write_to_user_struct and Register::write_any_to_user_struct *)
write_to_user_struct(d, user, value) ==
    copy_to_user_struct(d, value.bytes, user, value_byte_width(value))
write_any_to_user_struct(d, user, bytes) ==
    copy_to_user_struct(d, bytes, user, Len(bytes))

(* ---- the operations of Registers on one snapshot ---- *)

(* Two registers share bytes of the snapshot.  The operations of one run   *)
(* act on the registers that share bytes with the register in focus, and   *)
(* the focus is a register whose lane contains the lane of every register  *)
(* it shares bytes with (rax for eax, ax, al and ah).                      *)
Overlap(a, b) ==
    /\ offset_in_user_struct(a) < offset_in_user_struct(b) + byte_width(b)
    /\ offset_in_user_struct(b) < offset_in_user_struct(a) + byte_width(a)
Contains(a, b) ==
    /\ offset_in_user_struct(a) <= offset_in_user_struct(b)
    /\ offset_in_user_struct(b) + byte_width(b) <= offset_in_user_struct(a) + byte_width(a)
FocusChoices == {d \in Register : \A e \in Register : Overlap(d, e) => Contains(d, e)}
Family == [d \in FocusChoices |-> {e \in Register : Overlap(e, d)}]
Focus == Family[reg_focus[1]]

(* Payloads of w bytes, and the snapshots the operations start from: no    *)
(* byte of an initial snapshot is zero, and the bytes of one lane differ.  *)
Ramp(w) == [i \in 1..w |-> i]
Ones(w) == [i \in 1..w |-> 255]
RegisterValues ==
    {RegisterValue(variant, Ramp(size_of(variant))) : variant \in RegisterValueVariants}
    \cup {RegisterValue("U64", Ones(8)), RegisterValue("U8", <<0>>)}
AnyPayloads == {Ones(w) : w \in {1, 2, 4, 8, 16}}
InitialSnapshots == {[i \in 0..(UserSize - 1) |-> 32 + (i % 200)]}

RegInit ==
    /\ IdleInit
    /\ snapshot \in InitialSnapshots
    /\ reg_op = NoRegOp
    /\ reg_focus \in {Some(d) : d \in FocusChoices}
    /\ repl = NoRepl

RegOp(op, d, value, ok, out) ==
    [op |-> op, reg |-> Some(d), value |-> value, ok |-> ok, out |-> out,
     writes |-> reg_op.writes + (IF op = "read_register" THEN 0 ELSE 1)]

(* Registers::write_register *)
reg_write_register ==
    /\ reg_op.op # "read_register"
    /\ reg_op.writes < MaxWrites
    /\ \E d \in Focus, value \in RegisterValues :
         LET r == write_to_user_struct(d, snapshot, value)
         IN /\ snapshot' = r.user
            /\ reg_op' = RegOp("write_register", d, Some(value), r.ok, None)
    /\ UNCHANGED reg_focus
    /\ UNCHANGED <<ctl_vars, os_vars, spawn_vars>>
    /\ UNCHANGED repl

(* Registers::write_register_any *)
reg_write_register_any ==
    /\ reg_op.op # "read_register"
    /\ reg_op.writes < MaxWrites
    /\ \E d \in Focus, bytes \in AnyPayloads :
         LET r == write_any_to_user_struct(d, snapshot, bytes)
         IN /\ snapshot' = r.user
            /\ reg_op' = RegOp("write_register_any", d, Some(bytes), r.ok, None)
    /\ UNCHANGED reg_focus
    /\ UNCHANGED <<ctl_vars, os_vars, spawn_vars>>
    /\ UNCHANGED repl

(* Registers::read_register.  It leaves the snapshot as it is, so what can *)
(* follow it is what can follow the state it was called in: a run ends     *)
(* with it.                                                                *)
reg_read_register ==
    /\ reg_op.op # "read_register"
    /\ \E d \in Focus :
         reg_op' = RegOp("read_register", d, None, read_from_user_struct(d, snapshot) # Panic,
                         Some(read_from_user_struct(d, snapshot)))
    /\ UNCHANGED <<snapshot, reg_focus>>
    /\ UNCHANGED <<ctl_vars, os_vars, spawn_vars>>
    /\ UNCHANGED repl

RegNext ==
    \/ reg_write_register
    \/ reg_write_register_any
    \/ reg_read_register

RegSpec == RegInit /\ [][RegNext]_vars


(* ======================================================================= *)
(* The lookup indices of the catalog (register.rs:175-194)                 *)
(* ======================================================================= *)

(* Register::all_registers: every register of the catalog, in the order of *)
(* its definition.                                                         *)
all_registers == all_variants

(* Iterator::collect into a BTreeMap: the pairs are inserted in order, and *)
(* an insertion under a key that is present replaces its entry, so a key   *)
(* ends with the value of the last pair that carries it.                   *)
collect(pairs) ==
    [k \in {pairs[i][1] : i \in 1..Len(pairs)} |->
        LET last == CHOOSE i \in 1..Len(pairs) :
                       /\ pairs[i][1] = k
                       /\ \A j \in 1..Len(pairs) : pairs[j][1] = k => j <= i
        IN pairs[last][2]]

(* .map(|reg| (reg.name(), reg)) *)
NAME_TO_REGISTER_MAP ==
    collect([i \in 1..Len(all_registers) |-> <<all_registers[i].name, all_registers[i]>>])

(* .filter_map(|reg| reg.dwarf_id().map(|id| (id, reg))) *)
has_dwarf_id(d) == dwarf_id(d) # None
DWARF_ID_TO_REGISTER_MAP ==
    LET regs == SelectSeq(all_registers, has_dwarf_id)
    IN collect([i \in 1..Len(regs) |-> <<dwarf_id(regs[i])[1], regs[i]>>])

(* A variant of lookup_by_name: a miss answers with the first register. *)
lookup_by_name_default(name) ==
    IF name \in DOMAIN NAME_TO_REGISTER_MAP THEN Some(NAME_TO_REGISTER_MAP[name])
    ELSE Some(all_registers[1])

(* Register::lookup_by_name and Register::lookup_by_dwarf_id *)
lookup_by_name(name) ==
    IF name \in DOMAIN NAME_TO_REGISTER_MAP THEN Some(NAME_TO_REGISTER_MAP[name]) ELSE None
lookup_by_dwarf_id(id) ==
    IF id \in DOMAIN DWARF_ID_TO_REGISTER_MAP THEN Some(DWARF_ID_TO_REGISTER_MAP[id]) ELSE None

(* The names and numbers looked up: those of the catalog and others. *)
LookupNames ==
    {all_registers[i].name : i \in 1..Len(all_registers)}
    \cup {"", "dh", "RAX", "rax ", "st8", "mm8", "xmm16", "dr8", "r16", "pc"}
LookupIds == 0..MaxDwarfId

CatalogInit ==
    /\ IdleInit
    /\ snapshot = NoSnapshot
    /\ reg_op = NoRegOp
    /\ reg_focus = None
    /\ repl = NoRepl

LookupOp(op, key, out) ==
    [op |-> op, reg |-> None, value |-> Some(key), ok |-> out # None, out |-> out, writes |-> 0]

reg_lookup_by_name ==
    /\ \E name \in LookupNames : reg_op' = LookupOp("lookup_by_name", name, lookup_by_name(name))
    /\ UNCHANGED <<snapshot, reg_focus>>
    /\ UNCHANGED <<ctl_vars, os_vars, spawn_vars>>
    /\ UNCHANGED repl

reg_lookup_by_dwarf_id ==
    /\ \E id \in LookupIds : reg_op' = LookupOp("lookup_by_dwarf_id", id, lookup_by_dwarf_id(id))
    /\ UNCHANGED <<snapshot, reg_focus>>
    /\ UNCHANGED <<ctl_vars, os_vars, spawn_vars>>
    /\ UNCHANGED repl

CatalogNext ==
    \/ reg_lookup_by_name
    \/ reg_lookup_by_dwarf_id

CatalogSpec == CatalogInit /\ [][CatalogNext]_vars



(* ======================================================================= *)
(* Registers::read_with_ptrace byte by byte (register.rs:375-394)          *)
(* ======================================================================= *)

(* Register::all_debug_registers: the debug registers of the catalog, in   *)
(* the order of their definition.                                          *)
is_debug_register(d) == kind(d) = "Debug"
all_debug_registers == SelectSeq(all_variants, is_debug_register)

(* A variant of the range 0usize..=8 that starts at 1. *)
debug_indices_from_one == [k \in 1..9 |-> k]

(* The range 0usize..=8 as the sequence of its elements. *)
debug_indices == [k \in 1..9 |-> k - 1]

(* iter::zip stops with the shorter of the two. *)
zip(a, b) == [k \in 1..(IF Len(a) < Len(b) THEN Len(a) ELSE Len(b)) |-> <<a[k], b[k]>>]

(* What the fetch did: ok with the snapshot built, or the error of the     *)
(* first query that failed, or the panic of an index past the end of       *)
(* u_debugreg; and the queries issued, in order.                           *)
Fetched(res, user, reqs) == [res |-> res, user |-> user, reqs |-> reqs]
Query(req, addr) == [req |-> req, addr |-> addr]

(* The assignment of a field of libc::user: count bytes at offset dst. *)
assign(src, user, dst, count) ==
    [i \in DOMAIN user |-> IF dst <= i /\ i < dst + count THEN src[i - dst + 1] ELSE user[i]]

(* The bytes of the tracee's user area from offset addr on. *)
Bytes(image, addr, count) == [i \in 1..count |-> image[addr + i - 1]]

(* The loop over the zipped indices and debug registers, from its k-th     *)
(* turn on; fail is the query that the kernel refuses, if any.             *)
RECURSIVE read_debug_registers(_, _, _, _, _)
read_debug_registers(user, reqs, image, fail, k) ==
    LET pairs == zip(debug_indices, all_debug_registers) IN
    IF k > Len(pairs) THEN Fetched("Ok", user, reqs)
    ELSE LET idx == pairs[k][1]
             offset == offset_in_user_struct(pairs[k][2])
             issued == Append(reqs, Query("PTRACE_PEEKUSER", offset))
         IN IF fail = Query("PTRACE_PEEKUSER", offset) THEN Fetched("Err", user, issued)
            ELSE IF idx >= DebugRegCount THEN Fetched("Panic", user, issued)
            ELSE read_debug_registers(
                     assign(Bytes(image, offset, 8), user, offset_of_user("u_debugreg") + 8 * idx, 8),
                     issued, image, fail, k + 1)

(* Registers::read_with_ptrace on the bytes of libc::user: a zeroed user,  *)
(* user.regs from getregs, user.i387 from PTRACE_GETFPREGS, then the loop. *)
read_with_ptrace_bytes(image, fail) ==
    LET zero == [i \in 0..(UserSize - 1) |-> 0]
        getregs == Query("PTRACE_GETREGS", 0)
        getfpregs == Query("PTRACE_GETFPREGS", 0)
        regs_size == 8 * Len(user_regs_struct_fields)
        with_regs == assign(Bytes(image, offset_of_user("regs"), regs_size), zero,
                            offset_of_user("regs"), regs_size)
        with_i387 == assign(Bytes(image, offset_of_user("i387"), UserFpregsSize), with_regs,
                            offset_of_user("i387"), UserFpregsSize)
    IN IF fail = getregs THEN Fetched("Err", zero, <<getregs>>)
       ELSE IF fail = getfpregs THEN Fetched("Err", with_regs, <<getregs, getfpregs>>)
       ELSE read_debug_registers(with_i387, <<getregs, getfpregs>>, image, fail, 1)

(* The user areas of the tracee the fetch reads from, and the query that   *)
(* fails: none, one of the two bulk queries, or the query of one word of   *)
(* u_debugreg.                                                             *)
TraceeImages ==
    {[i \in 0..(UserSize - 1) |-> 1 + (i % 251)], [i \in 0..(UserSize - 1) |-> 255 - (i % 7)]}
NoFailure == Query("none", 0)
FetchFailures ==
    {NoFailure, Query("PTRACE_GETREGS", 0), Query("PTRACE_GETFPREGS", 0)}
    \cup {Query("PTRACE_PEEKUSER", offset_of_user("u_debugreg") + 8 * i) : i \in 0..(DebugRegCount - 1)}

FetchInit ==
    /\ IdleInit
    /\ snapshot = NoSnapshot
    /\ reg_op = NoRegOp
    /\ reg_focus = None
    /\ repl = NoRepl

(* Registers::read_with_ptrace; the snapshot exists only if it returned Ok. *)
fetch_read_with_ptrace ==
    /\ reg_op.op = "none"
    /\ \E image \in TraceeImages, fail \in FetchFailures :
         LET f == read_with_ptrace_bytes(image, fail)
         IN /\ snapshot' = IF f.res = "Ok" THEN f.user ELSE NoSnapshot
            /\ reg_op' = [op |-> "read_with_ptrace", reg |-> None, value |-> Some(image),
                          ok |-> f.res = "Ok", out |-> Some(f), writes |-> 0]
    /\ UNCHANGED reg_focus
    /\ UNCHANGED <<ctl_vars, os_vars, spawn_vars>>
    /\ UNCHANGED repl

(* Registers::read_register on the snapshot just fetched. *)
fetch_read_register ==
    /\ reg_op.op = "read_with_ptrace" /\ reg_op.ok
    /\ \E d \in Register :
         reg_op' = [op |-> "read_register", reg |-> Some(d), value |-> reg_op.value,
                    ok |-> read_from_user_struct(d, snapshot) # Panic,
                    out |-> Some(read_from_user_struct(d, snapshot)), writes |-> 0]
    /\ UNCHANGED <<snapshot, reg_focus>>
    /\ UNCHANGED <<ctl_vars, os_vars, spawn_vars>>
    /\ UNCHANGED repl

FetchNext ==
    \/ fetch_read_with_ptrace
    \/ fetch_read_register

FetchSpec == FetchInit /\ [][FetchNext]_vars

(* ======================================================================= *)
(* The command loop (debugger.rs:41-294)                                   *)
(* ======================================================================= *)

(* enum CommandExecutionResult over anyhow::Result<()> *)
Continue(res) == [kind |-> "Continue", res |-> res]
Quit(res) == [kind |-> "Quit", res |-> res]

(* Variant of should_quit: an error ends the loop as well. *)
should_quit_on_error(result) == result.kind = "Quit" \/ result.res = "Err"

(* CommandExecutionResult::should_quit *)
should_quit(result) == result.kind = "Quit"

(* What the command layer sees of a controller: its process state and      *)
(* whether it holds a snapshot.                                            *)
ReplDebuggee(state, has_registers) == [state |-> state, registers |-> has_registers]
ReplStates == {"Stopped", "Running", "Exited", "Terminated"}

(* What a handler did: its result, the controller the Debugger holds after *)
(* it, and the calls it made, in order.                                    *)
Handled(result, debuggee, calls) == [result |-> result, debuggee |-> debuggee, calls |-> calls]

(* Debuggee::new as the command layer sees it: an error, or a controller. *)
NewOutcomes(config) ==
    {Handled(Continue("Err"), None, <<config>>)}
    \cup {Handled(Continue("Ok"), Some(ReplDebuggee(st, has)), <<config>>) :
            st \in ReplStates, has \in BOOLEAN}

(* Debugger::handle_attach *)
handle_attach(debuggee) ==
    IF debuggee # None THEN {Handled(Continue("Ok"), debuggee, <<>>)}
    ELSE NewOutcomes("Debuggee::new(Existing)")

(* A variant of handle_run that spawns whether or not a controller is      *)
(* present.                                                                *)
handle_run_replace(debuggee, no_args) ==
    IF no_args THEN {Handled(Continue("Err"), None, <<>>)}
    ELSE NewOutcomes("Debuggee::new(SpawnChild)")

(* Debugger::handle_run; no_args: the argument list is empty. *)
handle_run(debuggee, no_args) ==
    IF debuggee # None THEN {Handled(Continue("Ok"), debuggee, <<>>)}
    ELSE IF no_args THEN {Handled(Continue("Err"), None, <<>>)}
    ELSE NewOutcomes("Debuggee::new(SpawnChild)")

(* A variant of handle_detach that gives the controller up without its     *)
(* teardown.                                                               *)
handle_detach_forget(debuggee) == {Handled(Continue("Ok"), None, <<>>)}

(* Debugger::handle_detach: the controller, if any, is dropped. *)
handle_detach(debuggee) ==
    {Handled(Continue("Ok"), None, IF debuggee # None THEN <<"drop">> ELSE <<>>)}

(* A variant of handle_continue that waits whatever resume returned. *)
handle_continue_wait_anyway(debuggee) ==
    IF debuggee = None THEN {Handled(Continue("Ok"), None, <<>>)}
    ELSE LET d == debuggee[1]
             both == <<"resume", "update_process_state(true)">>
         IN {Handled(Continue("Err"), debuggee, both),
             Handled(Continue("Ok"), Some(ReplDebuggee("Stopped", TRUE)), both),
             Handled(Continue("Ok"), Some([d EXCEPT !.state = "Exited"]), both),
             Handled(Continue("Ok"), Some([d EXCEPT !.state = "Terminated"]), both)}

(* Debugger::handle_continue: resume()?, then update_process_state(true)?, *)
(* with the results the two calls can have: resume refuses a terminal      *)
(* state or its request fails; the wait fails, or decodes a stop (the      *)
(* snapshot is then fetched, or the fetch fails), an exit or a kill.       *)
handle_continue(debuggee) ==
    IF debuggee = None THEN {Handled(Continue("Ok"), None, <<>>)}
    ELSE LET d == debuggee[1]
             both == <<"resume", "update_process_state(true)">>
         IN IF d.state \in {"Exited", "Terminated"}
            THEN {Handled(Continue("Err"), debuggee, <<"resume">>)}
            ELSE {Handled(Continue("Err"), debuggee, <<"resume">>),
                  Handled(Continue("Err"), Some([d EXCEPT !.state = "Running"]), both),
                  Handled(Continue("Err"), Some([d EXCEPT !.state = "Stopped"]), both),
                  Handled(Continue("Ok"), Some(ReplDebuggee("Stopped", TRUE)), both),
                  Handled(Continue("Ok"), Some([d EXCEPT !.state = "Exited"]), both),
                  Handled(Continue("Ok"), Some([d EXCEPT !.state = "Terminated"]), both)}

(* Debugger::handle_register_read; name: "none" for no name, "hit" for the *)
(* name of a register, "miss" for another name.                            *)
handle_register_read(debuggee, name) ==
    IF debuggee = None THEN {Handled(Continue("Ok"), None, <<>>)}
    ELSE IF ~debuggee[1].registers THEN {Handled(Continue("Ok"), debuggee, <<"registers">>)}
    ELSE CASE name = "none" -> {Handled(Continue("Ok"), debuggee, <<"registers", "read_register">>)}
           [] name = "hit" ->
                {Handled(Continue("Ok"), debuggee, <<"registers", "lookup_by_name", "read_register">>)}
           [] name = "miss" -> {Handled(Continue("Err"), debuggee, <<"registers", "lookup_by_name">>)}

(* Debugger::handle_quit *)
handle_quit(debuggee) == {Handled(Quit("Ok"), debuggee, <<>>)}

(* Debugger::repl_line and Debugger::handle_command: a line that does not  *)
(* parse gives Continue(Err), any other line goes to its handler.          *)
Commands ==
    {"parse error", "Attach", "Run", "Run no args", "Detach", "Continue", "Register.Read",
     "Register.Read hit", "Register.Read miss", "Quit"}
repl_line(debuggee, command) ==
    CASE command = "parse error" -> {Handled(Continue("Err"), debuggee, <<>>)}
      [] command = "Attach" -> handle_attach(debuggee)
      [] command = "Run" -> handle_run(debuggee, FALSE)
      [] command = "Run no args" -> handle_run(debuggee, TRUE)
      [] command = "Detach" -> handle_detach(debuggee)
      [] command = "Continue" -> handle_continue(debuggee)
      [] command = "Register.Read" -> handle_register_read(debuggee, "none")
      [] command = "Register.Read hit" -> handle_register_read(debuggee, "hit")
      [] command = "Register.Read miss" -> handle_register_read(debuggee, "miss")
      [] command = "Quit" -> handle_quit(debuggee)

(* Debugger::new and the entry of Debugger::repl. *)
ReplInit ==
    /\ IdleInit
    /\ snapshot = NoSnapshot
    /\ reg_op = NoRegOp
    /\ reg_focus = None
    /\ repl = [NoRepl EXCEPT !.pc = "readline"]

ReplUnchanged == UNCHANGED <<ctl_vars, os_vars, spawn_vars, reg_vars>>

(* One turn of the loop of Debugger::repl with a non-empty line: the       *)
(* command runs, an error in its result is logged, and the loop ends       *)
(* exactly if should_quit.                                                 *)
repl_command(command) ==
    /\ repl.pc = "readline" /\ repl.lines < MaxLines
    /\ \E h \in repl_line(repl.debuggee, command) :
         repl' = [pc |-> IF should_quit(h.result) THEN "done" ELSE "readline",
                  debuggee |-> h.debuggee,
                  event |-> "line",
                  command |-> command,
                  result |-> Some(h.result),
                  logged |-> h.result.res = "Err",
                  calls |-> h.calls,
                  lines |-> repl.lines + 1]
    /\ ReplUnchanged

(* The turns without a command: an empty line, ctrl-c, ctrl-d and any      *)
(* other error of readline.                                                *)
ReplTurn(event, next_pc, logged) ==
    [repl EXCEPT !.pc = next_pc, !.event = event, !.command = "none", !.result = None,
                 !.logged = logged, !.calls = <<>>, !.lines = repl.lines + 1]
repl_empty_line ==
    /\ repl.pc = "readline" /\ repl.lines < MaxLines
    /\ repl' = ReplTurn("empty line", "readline", FALSE)
    /\ ReplUnchanged
repl_interrupted ==
    /\ repl.pc = "readline" /\ repl.lines < MaxLines
    /\ repl' = ReplTurn("Interrupted", "readline", FALSE)
    /\ ReplUnchanged
repl_eof ==
    /\ repl.pc = "readline"
    /\ repl' = ReplTurn("Eof", "done", FALSE)
    /\ ReplUnchanged
repl_readline_error ==
    /\ repl.pc = "readline"
    /\ repl' = ReplTurn("error", "done", TRUE)
    /\ ReplUnchanged

ReplNext ==
    \/ \E command \in Commands : repl_command(command)
    \/ repl_empty_line
    \/ repl_interrupted
    \/ repl_eof
    \/ repl_readline_error

ReplSpec == ReplInit /\ [][ReplNext]_vars

(* ======================================================================= *)
(* Properties                                                              *)
(* ======================================================================= *)
Terminal == {"Exited", "Terminated"}

(* The call named op has just returned to an idle caller. *)
Returned(op) == pc = "idle" /\ call.op = op /\ ret.op = op

(* A step in which update_process_state decodes a wait status: the public  *)
(* call, its return from a blocked wait, the initial update of new and the *)
(* status update that starts the teardown.                                 *)
DecodingStep ==
    \/ \E blocking \in BOOLEAN : update_process_state(blocking)
    \/ update_wait_returns
    \/ new_wait_returns
    \/ drop

(* C1: every controller a successful Debuggee::new returns is in state     *)
(* Stopped when it is returned, whatever the initial wait decoded.         *)
C1_NewReturnsStopped ==
    (Returned("new") /\ ret.ok) => process_state.tag = "Stopped"

(* C2: a failed resume() leaves process_state as it was; in Exited or      *)
(* Terminated resume() always fails and issues no continue request; a      *)
(* refused continue request in Stopped or Running does not set Running.    *)
C2_ResumeFailureKeepsState ==
    Returned("resume") =>
        /\ ~ret.ok => process_state = ret.before
        /\ ret.before.tag \in Terminal => (~ret.ok /\ ret.reqs = <<>>)
        /\ (ret.before.tag \notin Terminal /\ ~ret.ok) =>
               (ret.reqs = <<"PTRACE_CONT">> /\ process_state = ret.before)
C2_Witness ==
    Returned("resume") /\ ~ret.ok /\ ret.before.tag = "Exited" /\ process_state = ret.before

(* C3: resume() in Stopped or Running whose continue request the OS        *)
(* accepts ends with process_state Running and the process no longer in    *)
(* its ptrace-stop.                                                        *)
C3_ResumeRuns ==
    [][(resume /\ process_state.tag \in {"Stopped", "Running"} /\ ret'.ok)
        => (process_state' = Running /\ proc' = "running" /\ ~InPtraceStop')]_vars
C3_Witness ==
    Returned("resume") /\ ret.ok /\ ret.before.tag = "Stopped"
    /\ process_state = Running /\ proc = "running"

(* C4: Exited and Terminated are absorbing for a controller: no step       *)
(* takes its process_state from one of them to Running or Stopped.         *)
C4_TerminalAbsorbing ==
    [][(exists /\ exists' /\ process_state.tag \in Terminal)
        => process_state'.tag \in Terminal]_vars
C4_Witness ==
    /\ exists /\ pc = "idle" /\ call.op = ret.op /\ ret.op \in {"update", "resume"}
    /\ ret.before.tag \in Terminal /\ process_state.tag \in Terminal

(* C5 as stated: the process_state of a controller changes only in a step  *)
(* that decodes a wait status inside update_process_state.                 *)
C5_OnlyDecodingChangesState ==
    [][(exists /\ exists' /\ process_state' # process_state) => DecodingStep]_vars

(* C5 as amended: the process_state of a controller changes only in a step *)
(* that decodes a wait status inside update_process_state or in a          *)
(* successful resume(), which assigns Running; construction initialises it *)
(* with the literal Stopped(None).                                         *)
C5_OnlyDecodingOrResumeChangesState ==
    [][/\ (exists /\ exists' /\ process_state' # process_state) =>
              (DecodingStep \/ (resume /\ ret'.ok /\ process_state' = Running))
       /\ (~exists /\ exists') => process_state' = Stopped(None)]_vars
C5_Witness ==
    /\ Returned("resume") /\ ret.ok /\ ret.before.tag = "Stopped" /\ ret.wait = "none"
    /\ process_state = Running /\ exists

(* C6: when waitpid reports ECHILD, update_process_state succeeds and the  *)
(* state is Exited(None).                                                  *)
C6_EchildIsExitedNone ==
    (pc = "idle" /\ call.op = ret.op /\ ret.wait = "ECHILD")
        => (ret.ok /\ process_state = Exited(None))
C6_Witness ==
    Returned("update") /\ ret.wait = "ECHILD" /\ ret.ok /\ process_state = Exited(None)

(* C7: update_process_state(false) with a status pending observes that     *)
(* status and leaves it pending, so that a following blocking update       *)
(* observes it too.                                                        *)
C7_PeekObservesPendingStatus ==
    [][(update_process_state(FALSE) /\ exists /\ wait_status # NoStatus /\ Waitable)
        => /\ wait_status' = wait_status
           /\ ret'.wait = wait_status.kind
           /\ process_state' = Decode(wait_status)]_vars

(* C8: update_process_state(false) never blocks, the one that starts the   *)
(* teardown included: no caller is ever parked in a non-blocking update.   *)
C8_NonBlockingNeverBlocks ==
    pc = "update_wait" => (call.op = "update" /\ call.blocking)
C8_Witness ==
    /\ Returned("update") /\ ~call.blocking
    /\ proc = "running" /\ wait_status = NoStatus /\ ret.before = Running

(* C9: after a successful update that decodes Stopped the snapshot is      *)
(* present and is the one fetched during that update, whatever the         *)
(* previous snapshot held.                                                 *)
C9_StoppedUpdateReplacesSnapshot ==
    (pc = "idle" /\ call.op = ret.op /\ ret.op \in {"update", "new"} /\ ret.ok
        /\ process_state.tag = "Stopped")
        => (ret.fetched /\ registers = Some(User(os_regs, os_regs, os_regs)))
C9_Witness ==
    /\ Returned("update") /\ ret.ok /\ process_state.tag = "Stopped"
    /\ ret.dirty_before /\ ret.fetched
    /\ registers = Some(User(os_regs, os_regs, os_regs))

(* C10: when the child fails before or at exec (the trace-me request or    *)
(* the exec fails), it writes a non-empty message to the pipe before it    *)
(* exits and new returns an error carrying it; new never returns a         *)
(* controller for a child that failed to exec.                             *)
C10_ExecFailureReported ==
    child_fail # "" =>
        /\ (child_fail \in {"traceme", "exec"} /\ child_pc \in {"exit", "done"})
               => (pipe_data # "" /\ pipe_data = ErrorMessage(child_fail))
        /\ Returned("new") => (~ret.ok /\ ret.err # "" /\ ret.err = pipe_data)

(* C11: in SpawnChild the parent's read of the error-reporting pipe       *)
(* terminates under every interleaving: the parent has closed its own      *)
(* write end before it reads, the child's write end is closed by exec or   *)
(* by the child's end; after a successful exec the parent reads            *)
(* end-of-stream with no data and launch returns the pid, so that the      *)
(* controller is built.                                                    *)
C11_SpawnReadTerminates ==
    /\ (pc \in {"launch_drop", "launch_read"}) ~> (pc \notin {"launch_drop", "launch_read"})
    /\ [](pc = "launch_read" => "parent" \notin pipe_w)
    /\ []((child_pc = "done" /\ child_fail = "") => ("child" \notin pipe_w /\ pipe_data = ""))
    /\ [][(launch_read_returns /\ child_pc = "done" /\ child_fail = "")
            => (exists' /\ pc' = "new_wait" /\ UNCHANGED ret)]_vars
C11_Witness ==
    /\ pc = "new_wait" /\ exists /\ is_child
    /\ child_pc = "done" /\ child_fail = "" /\ pipe_data = "" /\ pipe_w = {}

(* C12: once new has returned the error of a SpawnChild whose program      *)
(* cannot be executed, the forked child has exited and has been reaped:    *)
(* no process of that launch remains, as a zombie or otherwise.            *)
C12_FailedSpawnLeavesNoProcess ==
    (Returned("new") /\ ~ret.ok /\ child_fail = "exec") => ~ProcessExists(proc)

(* C13: when the OS refuses the attach request, new(Existing(pid)) returns *)
(* the attach error; no controller exists, and the refused attach is the   *)
(* only request made: no wait, no teardown signal.                         *)
C13_AttachRefused ==
    (call.op = "new" /\ call.err \in {AttachError("ESRCH"), AttachError("EPERM")}) =>
        /\ ~exists /\ pc = "idle"
        /\ ret.op = "new" /\ ~ret.ok /\ ret.err = call.err
        /\ ret.wait = "none" /\ ret.reqs = <<"PTRACE_ATTACH">>
        /\ ~traced
C13_Witness ==
    /\ Returned("new") /\ ~ret.ok /\ ret.err = AttachError("EPERM")
    /\ ~exists /\ ret.reqs = <<"PTRACE_ATTACH">>

(* The teardown of the controller has just finished. *)
Dropped == pc = "idle" /\ ~exists /\ call.op \in {"drop", "new_drop"}

(* The finished call issued the request req; it issued a then b next. *)
Issued(req) == \E i \in 1..Len(ret.reqs) : ret.reqs[i] = req
IssuedInARow(a, b) == \E i \in 1..(Len(ret.reqs) - 1) : ret.reqs[i] = a /\ ret.reqs[i + 1] = b

(* C14: after the teardown of an owning controller (SpawnChild), whatever  *)
(* its state at teardown, the spawned process no longer exists: it was     *)
(* killed if still alive, and it has been reaped.                          *)
C14_OwnedTeardownLeavesNoProcess ==
    (Dropped /\ should_terminate) => ~ProcessExists(proc)
C14_Witness ==
    /\ Dropped /\ should_terminate /\ call.op = "drop"
    /\ process_state = Running /\ proc = "gone"
    /\ IssuedInARow("kill SIGKILL", "waitpid")

(* C15: the teardown of a non-owning controller (Existing) never sends a   *)
(* kill signal and never waits to reap; a process that is alive is left    *)
(* running and detached from the tracer, not stopped.                      *)
C15_ExistingTeardownLeavesRunning ==
    (Dropped /\ ~should_terminate) =>
        /\ ~Issued("kill SIGKILL") /\ ~Issued("wait")
        /\ \A i \in 2..Len(ret.reqs) : ret.reqs[i] # "waitpid"
        /\ proc \in {"running", "stopped"} => (proc = "running" /\ ~traced)

(* C16: in the teardown of an owning controller whose state is Running or  *)
(* Stopped, the kill signal is sent and the blocking reap follows it,      *)
(* whether or not the stop signal, the detach and the continue signal      *)
(* succeeded.                                                              *)
C16_OwnedAlwaysKilledAndReaped ==
    (Dropped /\ should_terminate /\ is_alive(process_state)) =>
        IssuedInARow("kill SIGKILL", "waitpid")

(* C17: the teardown never returns an error and a failing step skips none  *)
(* of the later steps: in Running or Stopped the detach and the continue   *)
(* signal are always issued, and an owning controller always ends with its *)
(* final wait().                                                           *)
C17_TeardownSkipsNoStep ==
    Dropped =>
        /\ call.op = "drop" => (ret.op = "drop" /\ ret.ok)
        /\ is_alive(process_state) => (Issued("PTRACE_DETACH") /\ Issued("kill SIGCONT"))
        /\ should_terminate => ret.reqs[Len(ret.reqs)] = "wait"

(* C18: when the state after the final status update is Running or Stopped *)
(* the teardown issues a stop signal, a detach and a continue signal, in   *)
(* this order; when it is Exited or Terminated it issues none of them.     *)
C18_StopDetachContinueInOrder ==
    Dropped =>
        IF is_alive(process_state)
        THEN \E i \in 1..(Len(ret.reqs) - 2) :
                 /\ ret.reqs[i] = "kill SIGSTOP"
                 /\ ret.reqs[i + 1] = "PTRACE_DETACH"
                 /\ ret.reqs[i + 2] = "kill SIGCONT"
        ELSE ~Issued("kill SIGSTOP") /\ ~Issued("PTRACE_DETACH") /\ ~Issued("kill SIGCONT")

(* ---- register operations on a snapshot ---- *)

(* The variant that matches a register's representation at its width. *)
Matches(d, value) ==
    /\ value_byte_width(value) = byte_width(d)
    /\ \/ repr(d) = "UInt" /\ value.variant \in {"U8", "U16", "U32", "U64"}
       \/ repr(d) = "LongDouble" /\ value.variant = "F128"
       \/ repr(d) = "Vector" /\ value.variant \in {"Byte64", "Byte128"}

(* The width of the payload of the write that reg_op records. *)
PayloadWidth(o) ==
    IF o.op = "write_register" THEN value_byte_width(o.value[1]) ELSE Len(o.value[1])
IsWrite(o) == o.op \in {"write_register", "write_register_any"}

(* C19: for every register d of the catalog and every value v whose width  *)
(* is d's width and whose variant matches d's representation,              *)
(* write_register(d, v) succeeds, and a read_register(d) that follows it   *)
(* returns exactly v.                                                      *)
C19_RoundTrip ==
    /\ []((reg_op.op = "write_register" /\ Matches(reg_op.reg[1], reg_op.value[1])) => reg_op.ok)
    /\ [][(/\ reg_op.op = "write_register"
           /\ Matches(reg_op.reg[1], reg_op.value[1])
           /\ reg_op'.op = "read_register"
           /\ reg_op'.reg = reg_op.reg)
          => (reg_op'.ok /\ reg_op'.out = reg_op.value)]_vars

(* A read of st0 has returned the sixteen bytes just written to st0. *)
C19_Witness ==
    /\ reg_op.op = "read_register"
    /\ reg_op.writes = 1
    /\ reg_op.reg = Some(fp_st(0))
    /\ reg_op.out = Some(RegisterValue("F128", Ramp(16)))

(* C20: write_register or write_register_any with a payload wider than the *)
(* register returns an error and leaves every byte of the snapshot as it   *)
(* was.                                                                    *)
C20_SizeMismatchRejected ==
    [][(/\ IsWrite(reg_op')
        /\ reg_op'.writes = reg_op.writes + 1
        /\ PayloadWidth(reg_op') > byte_width(reg_op'.reg[1]))
       => (~reg_op'.ok /\ snapshot' = snapshot)]_vars

(* An 8-byte value has been refused by the 4-byte register eax. *)
C20_Witness ==
    /\ reg_op.op = "write_register"
    /\ reg_op.reg = Some(gpr_32("eax", "rax"))
    /\ reg_op.value = Some(RegisterValue("U64", Ramp(8)))
    /\ ~reg_op.ok
    /\ snapshot \in InitialSnapshots

(* The bytes of the payload of the write that reg_op records, and a        *)
(* payload followed by zeros up to the width w.                            *)
Payload(o) == IF o.op = "write_register" THEN o.value[1].bytes ELSE o.value[1]
ZeroExtended(bytes, w) == [i \in 1..w |-> IF i <= Len(bytes) THEN bytes[i] ELSE 0]

(* The bytes of the lane of register d in a snapshot. *)
LaneBytes(d, user) == [i \in 1..byte_width(d) |-> user[offset_in_user_struct(d) + i - 1]]

(* C21: after write_register or write_register_any of a w-byte payload to  *)
(* a register of width W >= w, the first w bytes of the lane are the       *)
(* payload and the other W - w bytes are zero whatever the lane held, and  *)
(* a read_register of that register that follows returns the payload       *)
(* zero-extended to W bytes.                                               *)
C21_ZeroFillOnNarrowWrite ==
    /\ []((IsWrite(reg_op) /\ PayloadWidth(reg_op) <= byte_width(reg_op.reg[1]))
          => /\ reg_op.ok
             /\ LaneBytes(reg_op.reg[1], snapshot)
                  = ZeroExtended(Payload(reg_op), byte_width(reg_op.reg[1])))
    /\ [][(/\ IsWrite(reg_op)
           /\ PayloadWidth(reg_op) <= byte_width(reg_op.reg[1])
           /\ reg_op'.op = "read_register"
           /\ reg_op'.reg = reg_op.reg)
          => (/\ reg_op'.ok
              /\ reg_op'.out[1].bytes = ZeroExtended(Payload(reg_op), byte_width(reg_op.reg[1])))]_vars

(* A read of r15d has returned a one-byte payload extended by three zero   *)
(* bytes, over a lane that held no zero byte.                              *)
C21_Witness ==
    /\ reg_op.op = "read_register"
    /\ reg_op.writes = 1
    /\ reg_op.reg = Some(gpr_32("r15d", "r15"))
    /\ reg_op.out = Some(RegisterValue("U32", <<255, 0, 0, 0>>))

(* A step that is a call of write_register or write_register_any. *)
WriteStep == IsWrite(reg_op') /\ reg_op'.writes = reg_op.writes + 1

(* The 64-bit register that a sub-register is a view of. *)
Base(d) == CHOOSE g \in Register : g.def = "Gpr64" /\ g.name = d.field
LowByteCleared == <<0, 255, 255, 255, 255, 255, 255, 255>>

(* C22: a successful write to register d changes only the bytes of the     *)
(* snapshot in d's lane.  So the write of the one-byte value 0x00 to the   *)
(* 8-bit low alias of a 64-bit register that holds 0xFFFFFFFFFFFFFFFF      *)
(* leaves 0xFFFFFFFFFFFFFF00 in it, and then a read of the 64-bit register *)
(* returns that and a read of the alias returns 0x00.                      *)
C22_WriteChangesOnlyItsLane ==
    /\ [][(WriteStep /\ reg_op'.ok)
          => snapshot' = copy_to(LaneBytes(reg_op'.reg[1], snapshot'), snapshot,
                                 offset_in_user_struct(reg_op'.reg[1]),
                                 byte_width(reg_op'.reg[1]))]_vars
    /\ [][(/\ WriteStep
           /\ reg_op'.reg[1].def = "GprSub"
           /\ byte_width(reg_op'.reg[1]) = 1
           /\ reg_op'.reg[1].offset_on_base = 0
           /\ Payload(reg_op') = <<0>>
           /\ LaneBytes(Base(reg_op'.reg[1]), snapshot) = Ones(8))
          => (reg_op'.ok /\ LaneBytes(Base(reg_op'.reg[1]), snapshot') = LowByteCleared)]_vars
    /\ [][(/\ reg_op'.op = "read_register"
           /\ reg_focus[1].def = "Gpr64"
           /\ LaneBytes(reg_focus[1], snapshot) = LowByteCleared)
          => (/\ reg_op'.reg = reg_focus => reg_op'.out = Some(RegisterValue("U64", LowByteCleared))
              /\ (byte_width(reg_op'.reg[1]) = 1 /\ reg_op'.reg[1].offset_on_base = 0)
                    => reg_op'.out = Some(RegisterValue("U8", <<0>>)))]_vars

(* rax has been read as 0xFFFFFFFFFFFFFF00 after the two writes. *)
C22_Witness ==
    /\ reg_op.op = "read_register"
    /\ reg_op.writes = 2
    /\ reg_op.reg = Some(gpr_64("rax", Some(0)))
    /\ reg_op.out = Some(RegisterValue("U64", LowByteCleared))

(* ---- the catalog and its lookup indices ---- *)

(* C23: over all registers of the catalog the names are pairwise distinct, *)
(* and the debug numbers are pairwise distinct among the registers that    *)
(* have one; so each index, whenever a lookup uses it, holds one entry per *)
(* register it is built from.                                              *)
C23_CatalogUnique ==
    reg_op.op \in {"none", "lookup_by_name", "lookup_by_dwarf_id"} =>
    /\ \A i, j \in 1..Len(all_registers) :
         i # j => all_registers[i].name # all_registers[j].name
    /\ \A i, j \in 1..Len(all_registers) :
         (i # j /\ has_dwarf_id(all_registers[i]) /\ has_dwarf_id(all_registers[j]))
            => dwarf_id(all_registers[i]) # dwarf_id(all_registers[j])
    /\ Cardinality(DOMAIN NAME_TO_REGISTER_MAP) = Len(all_registers)
    /\ Cardinality(DOMAIN DWARF_ID_TO_REGISTER_MAP) = Len(SelectSeq(all_registers, has_dwarf_id))

(* The index by name, built from the whole catalog, has answered with the  *)
(* last register of the catalog.                                           *)
C23_Witness ==
    /\ reg_op.op = "lookup_by_name"
    /\ reg_op.out = Some(all_registers[Len(all_registers)])
    /\ Len(all_registers) > 1

(* C24: lookup_by_name(d.name) returns d for every register d, and         *)
(* lookup_by_dwarf_id(n) returns d for every register d whose debug number *)
(* is n; for a name or a number that no register carries the lookup        *)
(* returns none, never some register.                                      *)
C24_LookupExact ==
    /\ reg_op.op = "lookup_by_name" =>
         /\ \A d \in Register : d.name = reg_op.value[1] => reg_op.out = Some(d)
         /\ (\A d \in Register : d.name # reg_op.value[1]) => reg_op.out = None
    /\ reg_op.op = "lookup_by_dwarf_id" =>
         /\ \A d \in Register : dwarf_id(d) = Some(reg_op.value[1]) => reg_op.out = Some(d)
         /\ (\A d \in Register : dwarf_id(d) # Some(reg_op.value[1])) => reg_op.out = None

(* The debug number 41 has been resolved to mm0. *)
C24_Witness ==
    /\ reg_op.op = "lookup_by_dwarf_id"
    /\ reg_op.value = Some(41)
    /\ reg_op.out = Some(fp_mm(0))

(* ---- the snapshot and the process ---- *)

(* The trace requests that store register contents in the traced process. *)
RegisterWriteRequests == {"PTRACE_SETREGS", "PTRACE_SETFPREGS", "PTRACE_POKEUSER"}
NoRegisterWriteIn(reqs) == \A i \in 1..Len(reqs) : reqs[i] \notin RegisterWriteRequests

(* C25: write_register changes the local snapshot only: it issues no       *)
(* request to the OS and leaves the process and its register file as they  *)
(* were; resume and the teardown issue no request that stores registers,   *)
(* and the register file of the process is the same after them, also when  *)
(* the snapshot holds locally written values.                              *)
C25_RegisterWritesAreLocal ==
    [][/\ registers_mut_write_register
            => (ret'.reqs = <<>> /\ UNCHANGED os_vars /\ process_state' = process_state)
       /\ (resume \/ drop) => (os_regs' = os_regs /\ NoRegisterWriteIn(ret'.reqs))]_vars

(* resume has continued the process while the snapshot held a value that   *)
(* was written locally, and the register file of the process holds another.*)
C25_Witness ==
    /\ Returned("resume") /\ ret.ok /\ ret.dirty_before
    /\ ret.reqs = <<"PTRACE_CONT">>
    /\ registers # Some(User(os_regs, os_regs, os_regs))

(* ---- decoding of wait statuses ---- *)

(* A step in which update_process_state(blocking), called by the user,     *)
(* returns.                                                                *)
UpdateReturns(blocking) ==
    /\ update_process_state(blocking) \/ (update_wait_returns /\ call.blocking = blocking)
    /\ call'.op = "update" /\ pc' = "idle"

(* C26: update_process_state decodes a wait status as: exited with code c  *)
(* to Exited(c), killed by signal s to Terminated(s), stopped by signal s  *)
(* to Stopped(s), continued or still alive to Running.  So when a spawned  *)
(* program has exited after a resume, update_process_state(TRUE) succeeds  *)
(* and leaves Exited, and a resume that follows fails.                     *)
C26_WaitStatusDecoding ==
    /\ [](/\ \A c \in ExitCodes : Decode(WS("Exited", c)) = Exited(Some(c))
          /\ \A s \in StopSignals \cup {SIGKILL} :
               /\ Decode(WS("Signaled", s)) = Terminated(s)
               /\ Decode(WS("Stopped", s)) = Stopped(Some(s))
          /\ Decode(WS("Continued", 0)) = Running
          /\ Decode(WS("StillAlive", 0)) = Running)
    /\ [][\A blocking \in BOOLEAN :
            (UpdateReturns(blocking) /\ ret'.wait \in {"Exited", "Signaled", "Stopped"})
               => process_state' = Decode(wait_status)]_vars
    /\ [][(/\ UpdateReturns(TRUE)
           /\ is_child /\ proc = "zombie" /\ wait_status.kind = "Exited")
          => (ret'.ok /\ process_state' = Exited(Some(wait_status.val)))]_vars
    /\ []((Returned("resume") /\ ret.before.tag = "Exited")
          => (~ret.ok /\ ret.reqs = <<>> /\ process_state = ret.before))

(* The spawned program has exited with code 0, the blocking update has     *)
(* decoded that, and a resume after it has failed.                         *)
C26_Witness ==
    /\ Returned("resume") /\ ~ret.ok
    /\ is_child /\ proc = "gone"
    /\ process_state = Exited(Some(0))

(* ---- the command loop ---- *)

(* The last turn of the loop ran the command c. *)
Ran(c) == repl.event = "line" /\ repl.command = c

(* Only Quit gives the quit signal: after any other command, and after a   *)
(* line that does not parse, the result is Continue, an error in it has    *)
(* been logged and the loop is about to read the next line; after Quit the *)
(* result is Quit and the loop has ended.                                  *)
OnlyQuitQuits ==
    /\ \A c \in Commands \ {"Quit"} :
         Ran(c) => /\ repl.result # None /\ repl.result[1].kind = "Continue"
                   /\ repl.result[1].res = "Err" => repl.logged
                   /\ repl.pc = "readline"
    /\ Ran("Quit") => (repl.result = Some(Quit("Ok")) /\ repl.pc = "done")

(* C27, as stated: only Quit gives the quit signal, and the loop has ended *)
(* only after Quit or on end of input.                                     *)
C27_LoopEndsOnQuitOrEof ==
    /\ OnlyQuitQuits
    /\ repl.pc = "done" => (Ran("Quit") \/ repl.event = "Eof")

(* C27, amended: only Quit gives the quit signal, and the loop has ended   *)
(* only after Quit, on end of input, or on an error of readline other than *)
(* an interrupt, which is logged.                                          *)
C27_LoopEndsOnQuitEofOrReadError ==
    /\ OnlyQuitQuits
    /\ repl.pc = "done" => (Ran("Quit") \/ repl.event = "Eof" \/ (repl.event = "error" /\ repl.logged))
    /\ repl.event \in {"Eof", "error"} => repl.pc = "done"
    /\ repl.event \in {"Interrupted", "empty line"} => repl.pc = "readline"

(* Continue has returned an error with a controller present; the error was *)
(* logged and the loop reads on.                                           *)
C27_Witness ==
    /\ Ran("Continue") /\ repl.result = Some(Continue("Err"))
    /\ repl.debuggee # None /\ repl.logged /\ repl.pc = "readline"

(* The queries of a whole fetch: one PTRACE_GETREGS, one PTRACE_GETFPREGS,  *)
(* then one PTRACE_PEEKUSER per word 0..7 of u_debugreg, in this order.     *)
WholeFetch ==
    <<Query("PTRACE_GETREGS", 0), Query("PTRACE_GETFPREGS", 0)>>
    \o [k \in 1..DebugRegCount |-> Query("PTRACE_PEEKUSER", offset_of_user("u_debugreg") + 8 * (k - 1))]
CountOf(reqs, req) == Cardinality({k \in DOMAIN reqs : reqs[k].req = req})

(* C28: a snapshot fetch that succeeds has issued exactly one bulk          *)
(* general-purpose query, one bulk floating-point query and exactly 8       *)
(* debug-register queries, for the debug registers 0 to 7 in order, and the *)
(* word of debug register i is in debug slot i of the snapshot; no fetch,   *)
(* failed or not, queries or writes a 9th debug slot (index 8): its queries *)
(* are a prefix of those ten, it never panics on the index, and the         *)
(* snapshot keeps the size of libc::user.                                   *)
C28_FetchQueries ==
    reg_op.op = "read_with_ptrace" =>
        LET f == reg_op.out[1]
            image == reg_op.value[1]
        IN /\ f.res # "Panic"
           /\ Len(f.reqs) <= Len(WholeFetch)
           /\ f.reqs = SubSeq(WholeFetch, 1, Len(f.reqs))
           /\ \A k \in DOMAIN f.reqs :
                f.reqs[k].addr < offset_of_user("u_debugreg") + 8 * DebugRegCount
           /\ DOMAIN f.user = 0..(UserSize - 1)
           /\ reg_op.ok =>
                /\ f.reqs = WholeFetch
                /\ CountOf(f.reqs, "PTRACE_GETREGS") = 1
                /\ CountOf(f.reqs, "PTRACE_GETFPREGS") = 1
                /\ CountOf(f.reqs, "PTRACE_PEEKUSER") = 8
                /\ snapshot = f.user
                /\ \A i \in 0..7 :
                     \E d \in Register :
                        /\ d.name = "dr" \o ToString(i)
                        /\ Bytes(snapshot, offset_of_user("u_debugreg") + 8 * i, 8)
                             = Bytes(image, offset_in_user_struct(d), 8)

C28_Witness ==
    /\ reg_op.op = "read_with_ptrace"
    /\ reg_op.ok
    /\ Len(reg_op.out[1].reqs) = 10
    /\ reg_op.out[1].reqs[10] = Query("PTRACE_PEEKUSER", 904)
    /\ Bytes(snapshot, 904, 8) = Bytes(reg_op.value[1], 904, 8)
    /\ Bytes(snapshot, 904, 8) # Bytes(snapshot, 896, 8)

(* The array-like groups, the offset of the storage of each in libc::user,  *)
(* and the place of register d of a group under a stride per group.         *)
ArrayLike == {"FpSt", "FpMM", "FpXMM", "Dr"}
GroupBase(d) ==
    CASE d.def \in {"FpSt", "FpMM"} -> offset_of_user("i387") + offset_of_user_fpregs_struct("st_space")
      [] d.def = "FpXMM" -> offset_of_user("i387") + offset_of_user_fpregs_struct("xmm_space")
      [] d.def = "Dr" -> offset_of_user("u_debugreg")
StridesAsStated == [FpSt |-> 16, FpMM |-> 8, FpXMM |-> 16, Dr |-> 8]
StridesOfTheCode == [FpSt |-> 16, FpMM |-> 16, FpXMM |-> 16, Dr |-> 8]
LaidOutBy(strides) ==
    (reg_op.op = "read_register" /\ reg_op.reg[1].def \in ArrayLike) =>
        LET d == reg_op.reg[1]
            place == GroupBase(d) + d.id * strides[d.def]
        IN /\ offset_in_user_struct(d) = place
           /\ reg_op.ok
           /\ \A i \in 1..byte_width(d) : reg_op.out[1].bytes[i] = snapshot[place + i - 1]

(* C29 as stated: a register of an array-like group is at group base +     *)
(* index * stride, and read_register returns the bytes of the snapshot at   *)
(* that place, with stride 16 for st0..st7, 8 for mm0..mm7, 16 for          *)
(* xmm0..xmm15 and 8 for dr0..dr7.                                          *)
C29_StridesAsStated == LaidOutBy(StridesAsStated)

(* C29: a register of an array-like group is at group base + index *       *)
(* stride, and read_register returns the bytes of the snapshot at that      *)
(* place, with stride 16 for st0..st7, 16 for mm0..mm7 (mm i is the low 8   *)
(* bytes of the 16-byte slot of st i), 16 for xmm0..xmm15 and 8 for         *)
(* dr0..dr7.                                                                *)
C29_GroupStrides == LaidOutBy(StridesOfTheCode)

C29_Witness ==
    /\ reg_op.op = "read_register"
    /\ reg_op.reg[1].name = "mm3"
    /\ reg_op.ok
    /\ reg_op.out[1].bytes = [i \in 1..8 |-> snapshot[GroupBase(reg_op.reg[1]) + 48 + i - 1]]
    /\ reg_op.out[1].bytes # [i \in 1..8 |-> snapshot[GroupBase(reg_op.reg[1]) + 24 + i - 1]]

(* The views of a 64-bit register as <<width, offset within the base>>, and *)
(* the views that the names of the sub-registers of rax stand for.          *)
View32 == <<4, 0>>
View16 == <<2, 0>>
View8Low == <<1, 0>>
View8High == <<1, 1>>
ViewOf(d) == <<byte_width(d), offset_in_user_struct(d) - offset_in_user_struct(Base(d))>>
ViewsOfRax == [eax |-> View32, ax |-> View16, al |-> View8Low, ah |-> View8High]

(* C30: a sub-register is one of the four views of its base 64-bit          *)
(* register: 4, 2 or 1 bytes at the offset of the base, or 1 byte at that   *)
(* offset plus 1 (eax, ax, al and ah are these four views of rax, in this   *)
(* order); and read_register of a sub-register returns exactly those bytes  *)
(* of the value that read_register of its base returns on the same          *)
(* snapshot.                                                                *)
C30_SubRegisterViews ==
    (reg_op.op = "read_register" /\ reg_op.reg[1].def = "GprSub") =>
        LET d == reg_op.reg[1]
            base == read_from_user_struct(Base(d), snapshot)
        IN /\ Base(d).def = "Gpr64"
           /\ Base(d).name = d.field
           /\ ViewOf(d) \in {View32, View16, View8Low, View8High}
           /\ d.name \in DOMAIN ViewsOfRax => (Base(d).name = "rax" /\ ViewOf(d) = ViewsOfRax[d.name])
           /\ reg_op.ok
           /\ Len(reg_op.out[1].bytes) = ViewOf(d)[1]
           /\ reg_op.out[1].bytes = SubSeq(base.bytes, ViewOf(d)[2] + 1, ViewOf(d)[2] + ViewOf(d)[1])

C30_Witness ==
    /\ reg_op.op = "read_register"
    /\ reg_op.reg[1].name = "ah"
    /\ reg_op.writes > 0
    /\ reg_op.out[1].bytes = <<read_from_user_struct(Base(reg_op.reg[1]), snapshot).bytes[2]>>
    /\ reg_op.out[1].bytes # <<read_from_user_struct(Base(reg_op.reg[1]), snapshot).bytes[1]>>
    /\ snapshot # CHOOSE s \in InitialSnapshots : TRUE

(* The variant that goes with a representation and a width, "defect" for   *)
(* the pairs that have none.                                               *)
VariantFor(r, w) ==
    CASE r = "UInt" /\ w = 1 -> "U8"
      [] r = "UInt" /\ w = 2 -> "U16"
      [] r = "UInt" /\ w = 4 -> "U32"
      [] r = "UInt" /\ w = 8 -> "U64"
      [] r = "LongDouble" -> "F128"
      [] r = "Vector" /\ w <= 8 -> "Byte64"
      [] r = "Vector" /\ w <= 16 -> "Byte128"
      [] OTHER -> "defect"

(* C31: no register of the catalog has a representation and a width whose  *)
(* pair is a defect, and read_register of any register of the catalog       *)
(* succeeds and returns the variant that goes with its pair (U8, U16, U32,  *)
(* U64 for an unsigned integer of width 1, 2, 4, 8; F128 for the            *)
(* extended-precision float; Byte64 for a vector of at most 8 bytes,        *)
(* Byte128 for one of at most 16), holding the bytes of its lane.           *)
C31_ReadReturnsVariantOfReprAndWidth ==
    /\ reg_op.op \in {"none", "read_with_ptrace", "read_register"} =>
         \A d \in Register : VariantFor(repr(d), byte_width(d)) # "defect"
    /\ reg_op.op = "read_register" =>
         LET d == reg_op.reg[1] IN
         /\ reg_op.ok
         /\ reg_op.out[1] # Panic
         /\ reg_op.out[1].variant = VariantFor(repr(d), byte_width(d))
         /\ reg_op.out[1].variant \in RegisterValueVariants
         /\ reg_op.out[1].bytes = LaneBytes(d, snapshot)

C31_Witness ==
    /\ reg_op.op = "read_register"
    /\ reg_op.reg[1].name = "xmm15"
    /\ reg_op.ok
    /\ reg_op.out[1].variant = "Byte128"
    /\ reg_op.out[1].bytes = [i \in 1..16 |-> snapshot[offset_in_user_struct(reg_op.reg[1]) + i - 1]]

(* C32: when the wait of update_process_state fails with an error other     *)
(* than ECHILD, the call returns that error, and process_state and the      *)
(* stored snapshot are what they were before the call.                      *)
C32_WaitErrorLeavesControllerAsItWas ==
    [][\A blocking \in BOOLEAN :
         (UpdateReturns(blocking)
            /\ ret'.wait \notin {"Exited", "Signaled", "Stopped", "Continued", "StillAlive", "ECHILD"})
         => /\ ~ret'.ok
            /\ ret'.err = ret'.wait
            /\ ret'.reqs = <<"waitpid">>
            /\ process_state' = process_state
            /\ registers' = registers]_vars

C32_Witness ==
    /\ Returned("update")
    /\ ~ret.ok /\ ret.wait = "EINVAL" /\ ret.err = "EINVAL"
    /\ process_state = ret.before /\ process_state.tag = "Running"
    /\ registers # None /\ ret.dirty_before /\ Dirty(registers)

(* A step in which an update_process_state that decoded Stopped returns     *)
(* the error of its snapshot fetch: to the user, or to Debuggee::new.       *)
FetchFailsAfterStopped ==
    \/ /\ \E blocking \in BOOLEAN : UpdateReturns(blocking)
       /\ ret'.wait = "Stopped" /\ ~ret'.ok
    \/ /\ new_wait_returns
       /\ wait_status.kind = "Stopped" /\ pc' = "new_unwind"

(* C33: when update_process_state decodes Stopped and a query of the        *)
(* snapshot fetch fails, the call returns an error, process_state is the    *)
(* decoded Stopped, and the stored snapshot is what it was before the call: *)
(* absent or the previous snapshot, never a part of a new one.              *)
C33_FailedFetchKeepsOldSnapshot ==
    [][FetchFailsAfterStopped
         => /\ process_state' = Stopped(Some(wait_status.val))
            /\ registers' = registers
            /\ call'.err = "ESRCH" \/ (ret'.err = "ESRCH" /\ ~ret'.fetched)]_vars

C33_Witness ==
    /\ Returned("update") /\ ~ret.ok /\ ret.wait = "Stopped" /\ ret.err = "ESRCH"
    /\ process_state.tag = "Stopped"
    /\ registers # None
    /\ registers # Some(User(os_regs, os_regs, os_regs))
    /\ ~ret.dirty_before

(* A step in which the teardown of the controller runs to its end. *)
TeardownStep ==
    /\ drop \/ (update_wait_returns /\ call.op \in {"drop", "new_drop"})
    /\ exists /\ ~exists'

(* C34: the teardown of a controller reaps no child of the debugger other   *)
(* than the controller's own process: the exited children of earlier        *)
(* launches that nobody has reaped are the same after it as before.         *)
C34_TeardownReapsOnlyItsOwnPid ==
    [][TeardownStep => zombies' = zombies]_vars

(* C35: resume and an update_process_state that decodes Running, Exited or  *)
(* Terminated leave the stored snapshot as it is, and no step of a          *)
(* controller clears a snapshot once it is stored: registers() returns the  *)
(* snapshot of the last Stopped while the process runs and after it ended.  *)
C35_SnapshotKeptOutsideStopped ==
    /\ [][resume => registers' = registers]_vars
    /\ [][\A blocking \in BOOLEAN :
            (UpdateReturns(blocking)
               /\ ret'.wait \in {"Exited", "Signaled", "Continued", "StillAlive", "ECHILD"})
            => (ret'.ok /\ process_state'.tag # "Stopped" /\ registers' = registers)]_vars
    /\ [][(exists /\ exists' /\ registers # None) => registers' # None]_vars

C35_Witness ==
    /\ Returned("update") /\ ret.ok /\ ret.wait = "Exited"
    /\ process_state.tag = "Exited"
    /\ proc = "gone"
    /\ registers # None /\ Dirty(registers)

(* Debuggee::new has returned the error of its initial update, that is of   *)
(* a step after the attach or the launch succeeded.                         *)
NewFailedAfterTracing == pc = "idle" /\ ret.op = "new" /\ ~ret.ok /\ ret.err = "ESRCH"

(* C36: when new fails after the trace relationship is established, the     *)
(* teardown has run on the controller it had built before the error is      *)
(* returned: no controller is left, the stop signal, the detach and the     *)
(* continue signal were issued in this order, and a spawned child was       *)
(* killed and reaped and is gone.                                           *)
C36_FailedNewRunsTeardown ==
    NewFailedAfterTracing =>
        /\ ~exists
        /\ call.op = "new_drop"
        /\ ret.reqs[1] = "waitpid"
        /\ IssuedInARow("kill SIGSTOP", "PTRACE_DETACH")
        /\ IssuedInARow("PTRACE_DETACH", "kill SIGCONT")
        /\ should_terminate =>
             (IssuedInARow("kill SIGCONT", "kill SIGKILL")
                /\ IssuedInARow("kill SIGKILL", "waitpid")
                /\ ~ProcessExists(proc))
        /\ ~should_terminate => ~Issued("kill SIGKILL")

C36_Witness ==
    /\ NewFailedAfterTracing
    /\ ~exists /\ call.op = "new_drop"
    /\ should_terminate /\ is_child
    /\ process_state.tag = "Stopped"
    /\ registers = None
    /\ Issued("kill SIGKILL")
    /\ proc = "gone"

(* C37: once process_state is Exited(code) or Terminated(signal), no later  *)
(* step of the controller changes it: neither the variant nor the recorded  *)
(* exit code or signal.                                                     *)
C37_TerminalOutcomeStable ==
    [][(exists /\ exists' /\ process_state.tag \in Terminal)
         => process_state' = process_state]_vars

(* The calls that build a controller. *)
NewCalls == {<<"Debuggee::new(Existing)">>, <<"Debuggee::new(SpawnChild)">>}
CreatingCommands == {"Attach", "Run", "Run no args"}

(* C38: the command layer holds at most one controller.  Attach or Run      *)
(* with a controller present calls neither attach nor spawn, leaves the     *)
(* controller and its state as they are and returns success; Attach or Run  *)
(* that returns an error, Run with an empty argument list included, leaves  *)
(* the command layer without a controller.                                  *)
C38_AtMostOneController ==
    [][\A c \in CreatingCommands :
         repl_command(c) =>
            /\ repl.debuggee # None =>
                 /\ repl'.debuggee = repl.debuggee
                 /\ repl'.calls = <<>>
                 /\ repl'.result = Some(Continue("Ok"))
            /\ repl.debuggee = None =>
                 /\ repl'.result[1].kind = "Continue"
                 /\ repl'.result[1].res = "Err" => repl'.debuggee = None
                 /\ repl'.result[1].res = "Ok" => (repl'.debuggee # None /\ repl'.calls \in NewCalls)
                 /\ c = "Run no args" => (repl'.result[1].res = "Err" /\ repl'.calls = <<>>)]_vars

(* Run was issued with a controller present: nothing was called and the     *)
(* controller is still there.                                               *)
C38_Witness ==
    /\ Ran("Run") /\ repl.lines = 2
    /\ repl.debuggee = Some(ReplDebuggee("Stopped", TRUE))
    /\ repl.calls = <<>>
    /\ repl.result = Some(Continue("Ok"))

(* C39: Detach returns success and leaves the command layer without a       *)
(* controller; the teardown of a controller that was present runs once, in  *)
(* that command.  Without a controller, Continue and Register.Read call     *)
(* nothing and return success, and only an Attach or a Run that succeeds    *)
(* brings a controller back.                                                *)
C39_DetachDropsOnce ==
    /\ [][repl_command("Detach") =>
            /\ repl'.result = Some(Continue("Ok"))
            /\ repl'.debuggee = None
            /\ repl'.calls = IF repl.debuggee # None THEN <<"drop">> ELSE <<>>
            /\ repl'.pc = "readline"]_vars
    /\ [][\A c \in {"Continue", "Register.Read", "Register.Read hit", "Register.Read miss"} :
            (repl_command(c) /\ repl.debuggee = None) =>
               /\ repl'.result = Some(Continue("Ok"))
               /\ repl'.calls = <<>>
               /\ repl'.debuggee = None]_vars
    /\ [][(repl.debuggee = None /\ repl'.debuggee # None) =>
            /\ repl'.event = "line" /\ repl'.command \in {"Attach", "Run"}
            /\ repl'.result = Some(Continue("Ok"))
            /\ repl'.calls \in NewCalls]_vars

(* Detach has dropped a controller. *)
C39_Witness ==
    /\ Ran("Detach")
    /\ repl.calls = <<"drop">>
    /\ repl.debuggee = None
    /\ repl.result = Some(Continue("Ok"))
    /\ repl.pc = "readline"

(* C40: with a controller present, Continue calls resume and then the       *)
(* blocking update_process_state, in this order; when resume fails, as it   *)
(* does in Exited and Terminated, no wait follows, the result is            *)
(* Continue(Err), and the controller is kept with its state as it was.      *)
C40_ContinueResumesThenWaits ==
    [][(repl_command("Continue") /\ repl.debuggee # None) =>
         /\ repl'.calls \in {<<"resume">>, <<"resume", "update_process_state(true)">>}
         /\ repl'.result[1].kind = "Continue"
         /\ repl'.debuggee # None
         /\ repl'.pc = "readline"
         /\ repl'.calls = <<"resume">> =>
              (repl'.result = Some(Continue("Err")) /\ repl'.debuggee = repl.debuggee /\ repl'.logged)
         /\ repl.debuggee[1].state \in Terminal => repl'.calls = <<"resume">>
         /\ repl'.result = Some(Continue("Ok")) =>
              repl'.calls = <<"resume", "update_process_state(true)">>]_vars

(* Continue on a controller whose process has exited: resume failed, no     *)
(* wait, the controller is kept.                                            *)
C40_Witness ==
    /\ Ran("Continue")
    /\ repl.calls = <<"resume">>
    /\ repl.result = Some(Continue("Err"))
    /\ repl.debuggee # None /\ repl.debuggee[1].state = "Exited"
    /\ repl.pc = "readline"

====
